---- MODULE Spec2Model ----
(***************************************************************************)
(* Model of istioctl/pkg/writer/envoy/configdump/listener.go: the listener *)
(* extractor (retrieveSortedListenerSlice), the classifier                 *)
(* (retrieveListenerType), the ListenerFilter predicate (Verify) and the   *)
(* two printers (PrintListenerSummary, PrintListenerDump).                 *)
(*                                                                         *)
(* Go strings are sequences of runes, so that EqualFold, Contains and %v    *)
(* formatting are computed and not assumed. A rune is a one-character      *)
(* string, or the name U+XXXX of its code point when it is outside ASCII.  *)
(***************************************************************************)
EXTENDS Naturals, Sequences, FiniteSets

VARIABLES
    configDump,   \* c.configDump: the wrapped config dump (mutated by extraction)
    dump0,        \* history: c.configDump as it was when the running call began
    stdout,       \* what the running call has written to c.Stdout: the bytes of
                  \* the table, or the JSON text of the dump
    pc,           \* position of the running call
    filter,       \* the ListenerFilter argument of the running call
    listeners,    \* the slice returned by setupListenerConfigWriter
    idx,          \* index of the range loop over listeners (1-based)
    buf,          \* summary: the lines the tabwriter holds; dump: filteredListeners
    widths,       \* summary: the column widths the tabwriter holds between Writes
                  \* (empty unless a flush inside a Write failed)
    verdicts,     \* history: what filter.Verify did for each listener visited
    op,           \* which printer is running or ran last
    ret,          \* what the call returned ("none" while it runs)
    prev,         \* history: the outcome of the call before the running one
    fnIn,         \* argument of a pure function under test
    fnOut         \* its result

vars == <<configDump, dump0, stdout, pc, filter, listeners, idx, buf, widths,
          verdicts, op, ret, prev, fnIn, fnOut>>

-----------------------------------------------------------------------------
(* Bounds *)

\* most entries (dynamic + static) of a config dump
MaxEntries == 2
\* most filter chains of a listener given to the classifier
MaxChains == 2
\* most filters, over all chains, of a listener given to the classifier
MaxFilters == 3

-----------------------------------------------------------------------------
(* Strings *)

Upper == <<"A","B","C","D","E","F","G","H","I","J","K","L","M",
           "N","O","P","Q","R","S","T","U","V","W","X","Y","Z">>
Lower == <<"a","b","c","d","e","f","g","h","i","j","k","l","m",
           "n","o","p","q","r","s","t","u","v","w","x","y","z">>

\* the orbits of unicode.SimpleFold that hold a rune outside ASCII (the simple
\* case foldings of Unicode 14: a rune and the runes that differ from it in case
\* alone)
WideOrbits == {
    {"U+00B5", "U+039C", "U+03BC"}, {"U+00C0", "U+00E0"}, {"U+00C1", "U+00E1"},
    {"U+00C2", "U+00E2"}, {"U+00C3", "U+00E3"}, {"U+00C4", "U+00E4"},
    {"U+00C5", "U+00E5", "U+212B"}, {"U+00C6", "U+00E6"}, {"U+00C7", "U+00E7"},
    {"U+00C8", "U+00E8"}, {"U+00C9", "U+00E9"}, {"U+00CA", "U+00EA"}, {"U+00CB", "U+00EB"},
    {"U+00CC", "U+00EC"}, {"U+00CD", "U+00ED"}, {"U+00CE", "U+00EE"}, {"U+00CF", "U+00EF"},
    {"U+00D0", "U+00F0"}, {"U+00D1", "U+00F1"}, {"U+00D2", "U+00F2"}, {"U+00D3", "U+00F3"},
    {"U+00D4", "U+00F4"}, {"U+00D5", "U+00F5"}, {"U+00D6", "U+00F6"}, {"U+00D8", "U+00F8"},
    {"U+00D9", "U+00F9"}, {"U+00DA", "U+00FA"}, {"U+00DB", "U+00FB"}, {"U+00DC", "U+00FC"},
    {"U+00DD", "U+00FD"}, {"U+00DE", "U+00FE"}, {"U+00DF", "U+1E9E"}, {"U+00FF", "U+0178"},
    {"U+0100", "U+0101"}, {"U+0102", "U+0103"}, {"U+0104", "U+0105"}, {"U+0106", "U+0107"},
    {"U+0108", "U+0109"}, {"U+010A", "U+010B"}, {"U+010C", "U+010D"}, {"U+010E", "U+010F"},
    {"U+0110", "U+0111"}, {"U+0112", "U+0113"}, {"U+0114", "U+0115"}, {"U+0116", "U+0117"},
    {"U+0118", "U+0119"}, {"U+011A", "U+011B"}, {"U+011C", "U+011D"}, {"U+011E", "U+011F"},
    {"U+0120", "U+0121"}, {"U+0122", "U+0123"}, {"U+0124", "U+0125"}, {"U+0126", "U+0127"},
    {"U+0128", "U+0129"}, {"U+012A", "U+012B"}, {"U+012C", "U+012D"}, {"U+012E", "U+012F"},
    {"U+0132", "U+0133"}, {"U+0134", "U+0135"}, {"U+0136", "U+0137"}, {"U+0139", "U+013A"},
    {"U+013B", "U+013C"}, {"U+013D", "U+013E"}, {"U+013F", "U+0140"}, {"U+0141", "U+0142"},
    {"U+0143", "U+0144"}, {"U+0145", "U+0146"}, {"U+0147", "U+0148"}, {"U+014A", "U+014B"},
    {"U+014C", "U+014D"}, {"U+014E", "U+014F"}, {"U+0150", "U+0151"}, {"U+0152", "U+0153"},
    {"U+0154", "U+0155"}, {"U+0156", "U+0157"}, {"U+0158", "U+0159"}, {"U+015A", "U+015B"},
    {"U+015C", "U+015D"}, {"U+015E", "U+015F"}, {"U+0160", "U+0161"}, {"U+0162", "U+0163"},
    {"U+0164", "U+0165"}, {"U+0166", "U+0167"}, {"U+0168", "U+0169"}, {"U+016A", "U+016B"},
    {"U+016C", "U+016D"}, {"U+016E", "U+016F"}, {"U+0170", "U+0171"}, {"U+0172", "U+0173"},
    {"U+0174", "U+0175"}, {"U+0176", "U+0177"}, {"U+0179", "U+017A"}, {"U+017B", "U+017C"},
    {"U+017D", "U+017E"}, {"S", "s", "U+017F"}, {"U+0180", "U+0243"}, {"U+0181", "U+0253"},
    {"U+0182", "U+0183"}, {"U+0184", "U+0185"}, {"U+0186", "U+0254"}, {"U+0187", "U+0188"},
    {"U+0189", "U+0256"}, {"U+018A", "U+0257"}, {"U+018B", "U+018C"}, {"U+018E", "U+01DD"},
    {"U+018F", "U+0259"}, {"U+0190", "U+025B"}, {"U+0191", "U+0192"}, {"U+0193", "U+0260"},
    {"U+0194", "U+0263"}, {"U+0195", "U+01F6"}, {"U+0196", "U+0269"}, {"U+0197", "U+0268"},
    {"U+0198", "U+0199"}, {"U+019A", "U+023D"}, {"U+019C", "U+026F"}, {"U+019D", "U+0272"},
    {"U+019E", "U+0220"}, {"U+019F", "U+0275"}, {"U+01A0", "U+01A1"}, {"U+01A2", "U+01A3"},
    {"U+01A4", "U+01A5"}, {"U+01A6", "U+0280"}, {"U+01A7", "U+01A8"}, {"U+01A9", "U+0283"},
    {"U+01AC", "U+01AD"}, {"U+01AE", "U+0288"}, {"U+01AF", "U+01B0"}, {"U+01B1", "U+028A"},
    {"U+01B2", "U+028B"}, {"U+01B3", "U+01B4"}, {"U+01B5", "U+01B6"}, {"U+01B7", "U+0292"},
    {"U+01B8", "U+01B9"}, {"U+01BC", "U+01BD"}, {"U+01BF", "U+01F7"},
    {"U+01C4", "U+01C5", "U+01C6"}, {"U+01C7", "U+01C8", "U+01C9"}, {"U+01CA", "U+01CB", "U+01CC"},
    {"U+01CD", "U+01CE"}, {"U+01CF", "U+01D0"}, {"U+01D1", "U+01D2"}, {"U+01D3", "U+01D4"},
    {"U+01D5", "U+01D6"}, {"U+01D7", "U+01D8"}, {"U+01D9", "U+01DA"}, {"U+01DB", "U+01DC"},
    {"U+01DE", "U+01DF"}, {"U+01E0", "U+01E1"}, {"U+01E2", "U+01E3"}, {"U+01E4", "U+01E5"},
    {"U+01E6", "U+01E7"}, {"U+01E8", "U+01E9"}, {"U+01EA", "U+01EB"}, {"U+01EC", "U+01ED"},
    {"U+01EE", "U+01EF"}, {"U+01F1", "U+01F2", "U+01F3"}, {"U+01F4", "U+01F5"},
    {"U+01F8", "U+01F9"}, {"U+01FA", "U+01FB"}, {"U+01FC", "U+01FD"}, {"U+01FE", "U+01FF"},
    {"U+0200", "U+0201"}, {"U+0202", "U+0203"}, {"U+0204", "U+0205"}, {"U+0206", "U+0207"},
    {"U+0208", "U+0209"}, {"U+020A", "U+020B"}, {"U+020C", "U+020D"}, {"U+020E", "U+020F"},
    {"U+0210", "U+0211"}, {"U+0212", "U+0213"}, {"U+0214", "U+0215"}, {"U+0216", "U+0217"},
    {"U+0218", "U+0219"}, {"U+021A", "U+021B"}, {"U+021C", "U+021D"}, {"U+021E", "U+021F"},
    {"U+0222", "U+0223"}, {"U+0224", "U+0225"}, {"U+0226", "U+0227"}, {"U+0228", "U+0229"},
    {"U+022A", "U+022B"}, {"U+022C", "U+022D"}, {"U+022E", "U+022F"}, {"U+0230", "U+0231"},
    {"U+0232", "U+0233"}, {"U+023A", "U+2C65"}, {"U+023B", "U+023C"}, {"U+023E", "U+2C66"},
    {"U+023F", "U+2C7E"}, {"U+0240", "U+2C7F"}, {"U+0241", "U+0242"}, {"U+0244", "U+0289"},
    {"U+0245", "U+028C"}, {"U+0246", "U+0247"}, {"U+0248", "U+0249"}, {"U+024A", "U+024B"},
    {"U+024C", "U+024D"}, {"U+024E", "U+024F"}, {"U+0250", "U+2C6F"}, {"U+0251", "U+2C6D"},
    {"U+0252", "U+2C70"}, {"U+025C", "U+A7AB"}, {"U+0261", "U+A7AC"}, {"U+0265", "U+A78D"},
    {"U+0266", "U+A7AA"}, {"U+026A", "U+A7AE"}, {"U+026B", "U+2C62"}, {"U+026C", "U+A7AD"},
    {"U+0271", "U+2C6E"}, {"U+027D", "U+2C64"}, {"U+0282", "U+A7C5"}, {"U+0287", "U+A7B1"},
    {"U+029D", "U+A7B2"}, {"U+029E", "U+A7B0"}, {"U+0345", "U+0399", "U+03B9", "U+1FBE"},
    {"U+0370", "U+0371"}, {"U+0372", "U+0373"}, {"U+0376", "U+0377"}, {"U+037B", "U+03FD"},
    {"U+037C", "U+03FE"}, {"U+037D", "U+03FF"}, {"U+037F", "U+03F3"}, {"U+0386", "U+03AC"},
    {"U+0388", "U+03AD"}, {"U+0389", "U+03AE"}, {"U+038A", "U+03AF"}, {"U+038C", "U+03CC"},
    {"U+038E", "U+03CD"}, {"U+038F", "U+03CE"}, {"U+0391", "U+03B1"},
    {"U+0392", "U+03B2", "U+03D0"}, {"U+0393", "U+03B3"}, {"U+0394", "U+03B4"},
    {"U+0395", "U+03B5", "U+03F5"}, {"U+0396", "U+03B6"}, {"U+0397", "U+03B7"},
    {"U+0398", "U+03B8", "U+03D1", "U+03F4"}, {"U+039A", "U+03BA", "U+03F0"}, {"U+039B", "U+03BB"},
    {"U+039D", "U+03BD"}, {"U+039E", "U+03BE"}, {"U+039F", "U+03BF"},
    {"U+03A0", "U+03C0", "U+03D6"}, {"U+03A1", "U+03C1", "U+03F1"}, {"U+03A3", "U+03C2", "U+03C3"},
    {"U+03A4", "U+03C4"}, {"U+03A5", "U+03C5"}, {"U+03A6", "U+03C6", "U+03D5"},
    {"U+03A7", "U+03C7"}, {"U+03A8", "U+03C8"}, {"U+03A9", "U+03C9", "U+2126"},
    {"U+03AA", "U+03CA"}, {"U+03AB", "U+03CB"}, {"U+03CF", "U+03D7"}, {"U+03D8", "U+03D9"},
    {"U+03DA", "U+03DB"}, {"U+03DC", "U+03DD"}, {"U+03DE", "U+03DF"}, {"U+03E0", "U+03E1"},
    {"U+03E2", "U+03E3"}, {"U+03E4", "U+03E5"}, {"U+03E6", "U+03E7"}, {"U+03E8", "U+03E9"},
    {"U+03EA", "U+03EB"}, {"U+03EC", "U+03ED"}, {"U+03EE", "U+03EF"}, {"U+03F2", "U+03F9"},
    {"U+03F7", "U+03F8"}, {"U+03FA", "U+03FB"}, {"U+0400", "U+0450"}, {"U+0401", "U+0451"},
    {"U+0402", "U+0452"}, {"U+0403", "U+0453"}, {"U+0404", "U+0454"}, {"U+0405", "U+0455"},
    {"U+0406", "U+0456"}, {"U+0407", "U+0457"}, {"U+0408", "U+0458"}, {"U+0409", "U+0459"},
    {"U+040A", "U+045A"}, {"U+040B", "U+045B"}, {"U+040C", "U+045C"}, {"U+040D", "U+045D"},
    {"U+040E", "U+045E"}, {"U+040F", "U+045F"}, {"U+0410", "U+0430"}, {"U+0411", "U+0431"},
    {"U+0412", "U+0432", "U+1C80"}, {"U+0413", "U+0433"}, {"U+0414", "U+0434", "U+1C81"},
    {"U+0415", "U+0435"}, {"U+0416", "U+0436"}, {"U+0417", "U+0437"}, {"U+0418", "U+0438"},
    {"U+0419", "U+0439"}, {"U+041A", "U+043A"}, {"U+041B", "U+043B"}, {"U+041C", "U+043C"},
    {"U+041D", "U+043D"}, {"U+041E", "U+043E", "U+1C82"}, {"U+041F", "U+043F"},
    {"U+0420", "U+0440"}, {"U+0421", "U+0441", "U+1C83"}, {"U+0422", "U+0442", "U+1C84", "U+1C85"},
    {"U+0423", "U+0443"}, {"U+0424", "U+0444"}, {"U+0425", "U+0445"}, {"U+0426", "U+0446"},
    {"U+0427", "U+0447"}, {"U+0428", "U+0448"}, {"U+0429", "U+0449"},
    {"U+042A", "U+044A", "U+1C86"}, {"U+042B", "U+044B"}, {"U+042C", "U+044C"},
    {"U+042D", "U+044D"}, {"U+042E", "U+044E"}, {"U+042F", "U+044F"}, {"U+0460", "U+0461"},
    {"U+0462", "U+0463", "U+1C87"}, {"U+0464", "U+0465"}, {"U+0466", "U+0467"},
    {"U+0468", "U+0469"}, {"U+046A", "U+046B"}, {"U+046C", "U+046D"}, {"U+046E", "U+046F"},
    {"U+0470", "U+0471"}, {"U+0472", "U+0473"}, {"U+0474", "U+0475"}, {"U+0476", "U+0477"},
    {"U+0478", "U+0479"}, {"U+047A", "U+047B"}, {"U+047C", "U+047D"}, {"U+047E", "U+047F"},
    {"U+0480", "U+0481"}, {"U+048A", "U+048B"}, {"U+048C", "U+048D"}, {"U+048E", "U+048F"},
    {"U+0490", "U+0491"}, {"U+0492", "U+0493"}, {"U+0494", "U+0495"}, {"U+0496", "U+0497"},
    {"U+0498", "U+0499"}, {"U+049A", "U+049B"}, {"U+049C", "U+049D"}, {"U+049E", "U+049F"},
    {"U+04A0", "U+04A1"}, {"U+04A2", "U+04A3"}, {"U+04A4", "U+04A5"}, {"U+04A6", "U+04A7"},
    {"U+04A8", "U+04A9"}, {"U+04AA", "U+04AB"}, {"U+04AC", "U+04AD"}, {"U+04AE", "U+04AF"},
    {"U+04B0", "U+04B1"}, {"U+04B2", "U+04B3"}, {"U+04B4", "U+04B5"}, {"U+04B6", "U+04B7"},
    {"U+04B8", "U+04B9"}, {"U+04BA", "U+04BB"}, {"U+04BC", "U+04BD"}, {"U+04BE", "U+04BF"},
    {"U+04C0", "U+04CF"}, {"U+04C1", "U+04C2"}, {"U+04C3", "U+04C4"}, {"U+04C5", "U+04C6"},
    {"U+04C7", "U+04C8"}, {"U+04C9", "U+04CA"}, {"U+04CB", "U+04CC"}, {"U+04CD", "U+04CE"},
    {"U+04D0", "U+04D1"}, {"U+04D2", "U+04D3"}, {"U+04D4", "U+04D5"}, {"U+04D6", "U+04D7"},
    {"U+04D8", "U+04D9"}, {"U+04DA", "U+04DB"}, {"U+04DC", "U+04DD"}, {"U+04DE", "U+04DF"},
    {"U+04E0", "U+04E1"}, {"U+04E2", "U+04E3"}, {"U+04E4", "U+04E5"}, {"U+04E6", "U+04E7"},
    {"U+04E8", "U+04E9"}, {"U+04EA", "U+04EB"}, {"U+04EC", "U+04ED"}, {"U+04EE", "U+04EF"},
    {"U+04F0", "U+04F1"}, {"U+04F2", "U+04F3"}, {"U+04F4", "U+04F5"}, {"U+04F6", "U+04F7"},
    {"U+04F8", "U+04F9"}, {"U+04FA", "U+04FB"}, {"U+04FC", "U+04FD"}, {"U+04FE", "U+04FF"},
    {"U+0500", "U+0501"}, {"U+0502", "U+0503"}, {"U+0504", "U+0505"}, {"U+0506", "U+0507"},
    {"U+0508", "U+0509"}, {"U+050A", "U+050B"}, {"U+050C", "U+050D"}, {"U+050E", "U+050F"},
    {"U+0510", "U+0511"}, {"U+0512", "U+0513"}, {"U+0514", "U+0515"}, {"U+0516", "U+0517"},
    {"U+0518", "U+0519"}, {"U+051A", "U+051B"}, {"U+051C", "U+051D"}, {"U+051E", "U+051F"},
    {"U+0520", "U+0521"}, {"U+0522", "U+0523"}, {"U+0524", "U+0525"}, {"U+0526", "U+0527"},
    {"U+0528", "U+0529"}, {"U+052A", "U+052B"}, {"U+052C", "U+052D"}, {"U+052E", "U+052F"},
    {"U+0531", "U+0561"}, {"U+0532", "U+0562"}, {"U+0533", "U+0563"}, {"U+0534", "U+0564"},
    {"U+0535", "U+0565"}, {"U+0536", "U+0566"}, {"U+0537", "U+0567"}, {"U+0538", "U+0568"},
    {"U+0539", "U+0569"}, {"U+053A", "U+056A"}, {"U+053B", "U+056B"}, {"U+053C", "U+056C"},
    {"U+053D", "U+056D"}, {"U+053E", "U+056E"}, {"U+053F", "U+056F"}, {"U+0540", "U+0570"},
    {"U+0541", "U+0571"}, {"U+0542", "U+0572"}, {"U+0543", "U+0573"}, {"U+0544", "U+0574"},
    {"U+0545", "U+0575"}, {"U+0546", "U+0576"}, {"U+0547", "U+0577"}, {"U+0548", "U+0578"},
    {"U+0549", "U+0579"}, {"U+054A", "U+057A"}, {"U+054B", "U+057B"}, {"U+054C", "U+057C"},
    {"U+054D", "U+057D"}, {"U+054E", "U+057E"}, {"U+054F", "U+057F"}, {"U+0550", "U+0580"},
    {"U+0551", "U+0581"}, {"U+0552", "U+0582"}, {"U+0553", "U+0583"}, {"U+0554", "U+0584"},
    {"U+0555", "U+0585"}, {"U+0556", "U+0586"}, {"U+10A0", "U+2D00"}, {"U+10A1", "U+2D01"},
    {"U+10A2", "U+2D02"}, {"U+10A3", "U+2D03"}, {"U+10A4", "U+2D04"}, {"U+10A5", "U+2D05"},
    {"U+10A6", "U+2D06"}, {"U+10A7", "U+2D07"}, {"U+10A8", "U+2D08"}, {"U+10A9", "U+2D09"},
    {"U+10AA", "U+2D0A"}, {"U+10AB", "U+2D0B"}, {"U+10AC", "U+2D0C"}, {"U+10AD", "U+2D0D"},
    {"U+10AE", "U+2D0E"}, {"U+10AF", "U+2D0F"}, {"U+10B0", "U+2D10"}, {"U+10B1", "U+2D11"},
    {"U+10B2", "U+2D12"}, {"U+10B3", "U+2D13"}, {"U+10B4", "U+2D14"}, {"U+10B5", "U+2D15"},
    {"U+10B6", "U+2D16"}, {"U+10B7", "U+2D17"}, {"U+10B8", "U+2D18"}, {"U+10B9", "U+2D19"},
    {"U+10BA", "U+2D1A"}, {"U+10BB", "U+2D1B"}, {"U+10BC", "U+2D1C"}, {"U+10BD", "U+2D1D"},
    {"U+10BE", "U+2D1E"}, {"U+10BF", "U+2D1F"}, {"U+10C0", "U+2D20"}, {"U+10C1", "U+2D21"},
    {"U+10C2", "U+2D22"}, {"U+10C3", "U+2D23"}, {"U+10C4", "U+2D24"}, {"U+10C5", "U+2D25"},
    {"U+10C7", "U+2D27"}, {"U+10CD", "U+2D2D"}, {"U+10D0", "U+1C90"}, {"U+10D1", "U+1C91"},
    {"U+10D2", "U+1C92"}, {"U+10D3", "U+1C93"}, {"U+10D4", "U+1C94"}, {"U+10D5", "U+1C95"},
    {"U+10D6", "U+1C96"}, {"U+10D7", "U+1C97"}, {"U+10D8", "U+1C98"}, {"U+10D9", "U+1C99"},
    {"U+10DA", "U+1C9A"}, {"U+10DB", "U+1C9B"}, {"U+10DC", "U+1C9C"}, {"U+10DD", "U+1C9D"},
    {"U+10DE", "U+1C9E"}, {"U+10DF", "U+1C9F"}, {"U+10E0", "U+1CA0"}, {"U+10E1", "U+1CA1"},
    {"U+10E2", "U+1CA2"}, {"U+10E3", "U+1CA3"}, {"U+10E4", "U+1CA4"}, {"U+10E5", "U+1CA5"},
    {"U+10E6", "U+1CA6"}, {"U+10E7", "U+1CA7"}, {"U+10E8", "U+1CA8"}, {"U+10E9", "U+1CA9"},
    {"U+10EA", "U+1CAA"}, {"U+10EB", "U+1CAB"}, {"U+10EC", "U+1CAC"}, {"U+10ED", "U+1CAD"},
    {"U+10EE", "U+1CAE"}, {"U+10EF", "U+1CAF"}, {"U+10F0", "U+1CB0"}, {"U+10F1", "U+1CB1"},
    {"U+10F2", "U+1CB2"}, {"U+10F3", "U+1CB3"}, {"U+10F4", "U+1CB4"}, {"U+10F5", "U+1CB5"},
    {"U+10F6", "U+1CB6"}, {"U+10F7", "U+1CB7"}, {"U+10F8", "U+1CB8"}, {"U+10F9", "U+1CB9"},
    {"U+10FA", "U+1CBA"}, {"U+10FD", "U+1CBD"}, {"U+10FE", "U+1CBE"}, {"U+10FF", "U+1CBF"},
    {"U+13A0", "U+AB70"}, {"U+13A1", "U+AB71"}, {"U+13A2", "U+AB72"}, {"U+13A3", "U+AB73"},
    {"U+13A4", "U+AB74"}, {"U+13A5", "U+AB75"}, {"U+13A6", "U+AB76"}, {"U+13A7", "U+AB77"},
    {"U+13A8", "U+AB78"}, {"U+13A9", "U+AB79"}, {"U+13AA", "U+AB7A"}, {"U+13AB", "U+AB7B"},
    {"U+13AC", "U+AB7C"}, {"U+13AD", "U+AB7D"}, {"U+13AE", "U+AB7E"}, {"U+13AF", "U+AB7F"},
    {"U+13B0", "U+AB80"}, {"U+13B1", "U+AB81"}, {"U+13B2", "U+AB82"}, {"U+13B3", "U+AB83"},
    {"U+13B4", "U+AB84"}, {"U+13B5", "U+AB85"}, {"U+13B6", "U+AB86"}, {"U+13B7", "U+AB87"},
    {"U+13B8", "U+AB88"}, {"U+13B9", "U+AB89"}, {"U+13BA", "U+AB8A"}, {"U+13BB", "U+AB8B"},
    {"U+13BC", "U+AB8C"}, {"U+13BD", "U+AB8D"}, {"U+13BE", "U+AB8E"}, {"U+13BF", "U+AB8F"},
    {"U+13C0", "U+AB90"}, {"U+13C1", "U+AB91"}, {"U+13C2", "U+AB92"}, {"U+13C3", "U+AB93"},
    {"U+13C4", "U+AB94"}, {"U+13C5", "U+AB95"}, {"U+13C6", "U+AB96"}, {"U+13C7", "U+AB97"},
    {"U+13C8", "U+AB98"}, {"U+13C9", "U+AB99"}, {"U+13CA", "U+AB9A"}, {"U+13CB", "U+AB9B"},
    {"U+13CC", "U+AB9C"}, {"U+13CD", "U+AB9D"}, {"U+13CE", "U+AB9E"}, {"U+13CF", "U+AB9F"},
    {"U+13D0", "U+ABA0"}, {"U+13D1", "U+ABA1"}, {"U+13D2", "U+ABA2"}, {"U+13D3", "U+ABA3"},
    {"U+13D4", "U+ABA4"}, {"U+13D5", "U+ABA5"}, {"U+13D6", "U+ABA6"}, {"U+13D7", "U+ABA7"},
    {"U+13D8", "U+ABA8"}, {"U+13D9", "U+ABA9"}, {"U+13DA", "U+ABAA"}, {"U+13DB", "U+ABAB"},
    {"U+13DC", "U+ABAC"}, {"U+13DD", "U+ABAD"}, {"U+13DE", "U+ABAE"}, {"U+13DF", "U+ABAF"},
    {"U+13E0", "U+ABB0"}, {"U+13E1", "U+ABB1"}, {"U+13E2", "U+ABB2"}, {"U+13E3", "U+ABB3"},
    {"U+13E4", "U+ABB4"}, {"U+13E5", "U+ABB5"}, {"U+13E6", "U+ABB6"}, {"U+13E7", "U+ABB7"},
    {"U+13E8", "U+ABB8"}, {"U+13E9", "U+ABB9"}, {"U+13EA", "U+ABBA"}, {"U+13EB", "U+ABBB"},
    {"U+13EC", "U+ABBC"}, {"U+13ED", "U+ABBD"}, {"U+13EE", "U+ABBE"}, {"U+13EF", "U+ABBF"},
    {"U+13F0", "U+13F8"}, {"U+13F1", "U+13F9"}, {"U+13F2", "U+13FA"}, {"U+13F3", "U+13FB"},
    {"U+13F4", "U+13FC"}, {"U+13F5", "U+13FD"}, {"U+1C88", "U+A64A", "U+A64B"},
    {"U+1D79", "U+A77D"}, {"U+1D7D", "U+2C63"}, {"U+1D8E", "U+A7C6"}, {"U+1E00", "U+1E01"},
    {"U+1E02", "U+1E03"}, {"U+1E04", "U+1E05"}, {"U+1E06", "U+1E07"}, {"U+1E08", "U+1E09"},
    {"U+1E0A", "U+1E0B"}, {"U+1E0C", "U+1E0D"}, {"U+1E0E", "U+1E0F"}, {"U+1E10", "U+1E11"},
    {"U+1E12", "U+1E13"}, {"U+1E14", "U+1E15"}, {"U+1E16", "U+1E17"}, {"U+1E18", "U+1E19"},
    {"U+1E1A", "U+1E1B"}, {"U+1E1C", "U+1E1D"}, {"U+1E1E", "U+1E1F"}, {"U+1E20", "U+1E21"},
    {"U+1E22", "U+1E23"}, {"U+1E24", "U+1E25"}, {"U+1E26", "U+1E27"}, {"U+1E28", "U+1E29"},
    {"U+1E2A", "U+1E2B"}, {"U+1E2C", "U+1E2D"}, {"U+1E2E", "U+1E2F"}, {"U+1E30", "U+1E31"},
    {"U+1E32", "U+1E33"}, {"U+1E34", "U+1E35"}, {"U+1E36", "U+1E37"}, {"U+1E38", "U+1E39"},
    {"U+1E3A", "U+1E3B"}, {"U+1E3C", "U+1E3D"}, {"U+1E3E", "U+1E3F"}, {"U+1E40", "U+1E41"},
    {"U+1E42", "U+1E43"}, {"U+1E44", "U+1E45"}, {"U+1E46", "U+1E47"}, {"U+1E48", "U+1E49"},
    {"U+1E4A", "U+1E4B"}, {"U+1E4C", "U+1E4D"}, {"U+1E4E", "U+1E4F"}, {"U+1E50", "U+1E51"},
    {"U+1E52", "U+1E53"}, {"U+1E54", "U+1E55"}, {"U+1E56", "U+1E57"}, {"U+1E58", "U+1E59"},
    {"U+1E5A", "U+1E5B"}, {"U+1E5C", "U+1E5D"}, {"U+1E5E", "U+1E5F"},
    {"U+1E60", "U+1E61", "U+1E9B"}, {"U+1E62", "U+1E63"}, {"U+1E64", "U+1E65"},
    {"U+1E66", "U+1E67"}, {"U+1E68", "U+1E69"}, {"U+1E6A", "U+1E6B"}, {"U+1E6C", "U+1E6D"},
    {"U+1E6E", "U+1E6F"}, {"U+1E70", "U+1E71"}, {"U+1E72", "U+1E73"}, {"U+1E74", "U+1E75"},
    {"U+1E76", "U+1E77"}, {"U+1E78", "U+1E79"}, {"U+1E7A", "U+1E7B"}, {"U+1E7C", "U+1E7D"},
    {"U+1E7E", "U+1E7F"}, {"U+1E80", "U+1E81"}, {"U+1E82", "U+1E83"}, {"U+1E84", "U+1E85"},
    {"U+1E86", "U+1E87"}, {"U+1E88", "U+1E89"}, {"U+1E8A", "U+1E8B"}, {"U+1E8C", "U+1E8D"},
    {"U+1E8E", "U+1E8F"}, {"U+1E90", "U+1E91"}, {"U+1E92", "U+1E93"}, {"U+1E94", "U+1E95"},
    {"U+1EA0", "U+1EA1"}, {"U+1EA2", "U+1EA3"}, {"U+1EA4", "U+1EA5"}, {"U+1EA6", "U+1EA7"},
    {"U+1EA8", "U+1EA9"}, {"U+1EAA", "U+1EAB"}, {"U+1EAC", "U+1EAD"}, {"U+1EAE", "U+1EAF"},
    {"U+1EB0", "U+1EB1"}, {"U+1EB2", "U+1EB3"}, {"U+1EB4", "U+1EB5"}, {"U+1EB6", "U+1EB7"},
    {"U+1EB8", "U+1EB9"}, {"U+1EBA", "U+1EBB"}, {"U+1EBC", "U+1EBD"}, {"U+1EBE", "U+1EBF"},
    {"U+1EC0", "U+1EC1"}, {"U+1EC2", "U+1EC3"}, {"U+1EC4", "U+1EC5"}, {"U+1EC6", "U+1EC7"},
    {"U+1EC8", "U+1EC9"}, {"U+1ECA", "U+1ECB"}, {"U+1ECC", "U+1ECD"}, {"U+1ECE", "U+1ECF"},
    {"U+1ED0", "U+1ED1"}, {"U+1ED2", "U+1ED3"}, {"U+1ED4", "U+1ED5"}, {"U+1ED6", "U+1ED7"},
    {"U+1ED8", "U+1ED9"}, {"U+1EDA", "U+1EDB"}, {"U+1EDC", "U+1EDD"}, {"U+1EDE", "U+1EDF"},
    {"U+1EE0", "U+1EE1"}, {"U+1EE2", "U+1EE3"}, {"U+1EE4", "U+1EE5"}, {"U+1EE6", "U+1EE7"},
    {"U+1EE8", "U+1EE9"}, {"U+1EEA", "U+1EEB"}, {"U+1EEC", "U+1EED"}, {"U+1EEE", "U+1EEF"},
    {"U+1EF0", "U+1EF1"}, {"U+1EF2", "U+1EF3"}, {"U+1EF4", "U+1EF5"}, {"U+1EF6", "U+1EF7"},
    {"U+1EF8", "U+1EF9"}, {"U+1EFA", "U+1EFB"}, {"U+1EFC", "U+1EFD"}, {"U+1EFE", "U+1EFF"},
    {"U+1F00", "U+1F08"}, {"U+1F01", "U+1F09"}, {"U+1F02", "U+1F0A"}, {"U+1F03", "U+1F0B"},
    {"U+1F04", "U+1F0C"}, {"U+1F05", "U+1F0D"}, {"U+1F06", "U+1F0E"}, {"U+1F07", "U+1F0F"},
    {"U+1F10", "U+1F18"}, {"U+1F11", "U+1F19"}, {"U+1F12", "U+1F1A"}, {"U+1F13", "U+1F1B"},
    {"U+1F14", "U+1F1C"}, {"U+1F15", "U+1F1D"}, {"U+1F20", "U+1F28"}, {"U+1F21", "U+1F29"},
    {"U+1F22", "U+1F2A"}, {"U+1F23", "U+1F2B"}, {"U+1F24", "U+1F2C"}, {"U+1F25", "U+1F2D"},
    {"U+1F26", "U+1F2E"}, {"U+1F27", "U+1F2F"}, {"U+1F30", "U+1F38"}, {"U+1F31", "U+1F39"},
    {"U+1F32", "U+1F3A"}, {"U+1F33", "U+1F3B"}, {"U+1F34", "U+1F3C"}, {"U+1F35", "U+1F3D"},
    {"U+1F36", "U+1F3E"}, {"U+1F37", "U+1F3F"}, {"U+1F40", "U+1F48"}, {"U+1F41", "U+1F49"},
    {"U+1F42", "U+1F4A"}, {"U+1F43", "U+1F4B"}, {"U+1F44", "U+1F4C"}, {"U+1F45", "U+1F4D"},
    {"U+1F51", "U+1F59"}, {"U+1F53", "U+1F5B"}, {"U+1F55", "U+1F5D"}, {"U+1F57", "U+1F5F"},
    {"U+1F60", "U+1F68"}, {"U+1F61", "U+1F69"}, {"U+1F62", "U+1F6A"}, {"U+1F63", "U+1F6B"},
    {"U+1F64", "U+1F6C"}, {"U+1F65", "U+1F6D"}, {"U+1F66", "U+1F6E"}, {"U+1F67", "U+1F6F"},
    {"U+1F70", "U+1FBA"}, {"U+1F71", "U+1FBB"}, {"U+1F72", "U+1FC8"}, {"U+1F73", "U+1FC9"},
    {"U+1F74", "U+1FCA"}, {"U+1F75", "U+1FCB"}, {"U+1F76", "U+1FDA"}, {"U+1F77", "U+1FDB"},
    {"U+1F78", "U+1FF8"}, {"U+1F79", "U+1FF9"}, {"U+1F7A", "U+1FEA"}, {"U+1F7B", "U+1FEB"},
    {"U+1F7C", "U+1FFA"}, {"U+1F7D", "U+1FFB"}, {"U+1F80", "U+1F88"}, {"U+1F81", "U+1F89"},
    {"U+1F82", "U+1F8A"}, {"U+1F83", "U+1F8B"}, {"U+1F84", "U+1F8C"}, {"U+1F85", "U+1F8D"},
    {"U+1F86", "U+1F8E"}, {"U+1F87", "U+1F8F"}, {"U+1F90", "U+1F98"}, {"U+1F91", "U+1F99"},
    {"U+1F92", "U+1F9A"}, {"U+1F93", "U+1F9B"}, {"U+1F94", "U+1F9C"}, {"U+1F95", "U+1F9D"},
    {"U+1F96", "U+1F9E"}, {"U+1F97", "U+1F9F"}, {"U+1FA0", "U+1FA8"}, {"U+1FA1", "U+1FA9"},
    {"U+1FA2", "U+1FAA"}, {"U+1FA3", "U+1FAB"}, {"U+1FA4", "U+1FAC"}, {"U+1FA5", "U+1FAD"},
    {"U+1FA6", "U+1FAE"}, {"U+1FA7", "U+1FAF"}, {"U+1FB0", "U+1FB8"}, {"U+1FB1", "U+1FB9"},
    {"U+1FB3", "U+1FBC"}, {"U+1FC3", "U+1FCC"}, {"U+1FD0", "U+1FD8"}, {"U+1FD1", "U+1FD9"},
    {"U+1FE0", "U+1FE8"}, {"U+1FE1", "U+1FE9"}, {"U+1FE5", "U+1FEC"}, {"U+1FF3", "U+1FFC"},
    {"K", "k", "U+212A"}, {"U+2132", "U+214E"}, {"U+2160", "U+2170"}, {"U+2161", "U+2171"},
    {"U+2162", "U+2172"}, {"U+2163", "U+2173"}, {"U+2164", "U+2174"}, {"U+2165", "U+2175"},
    {"U+2166", "U+2176"}, {"U+2167", "U+2177"}, {"U+2168", "U+2178"}, {"U+2169", "U+2179"},
    {"U+216A", "U+217A"}, {"U+216B", "U+217B"}, {"U+216C", "U+217C"}, {"U+216D", "U+217D"},
    {"U+216E", "U+217E"}, {"U+216F", "U+217F"}, {"U+2183", "U+2184"}, {"U+24B6", "U+24D0"},
    {"U+24B7", "U+24D1"}, {"U+24B8", "U+24D2"}, {"U+24B9", "U+24D3"}, {"U+24BA", "U+24D4"},
    {"U+24BB", "U+24D5"}, {"U+24BC", "U+24D6"}, {"U+24BD", "U+24D7"}, {"U+24BE", "U+24D8"},
    {"U+24BF", "U+24D9"}, {"U+24C0", "U+24DA"}, {"U+24C1", "U+24DB"}, {"U+24C2", "U+24DC"},
    {"U+24C3", "U+24DD"}, {"U+24C4", "U+24DE"}, {"U+24C5", "U+24DF"}, {"U+24C6", "U+24E0"},
    {"U+24C7", "U+24E1"}, {"U+24C8", "U+24E2"}, {"U+24C9", "U+24E3"}, {"U+24CA", "U+24E4"},
    {"U+24CB", "U+24E5"}, {"U+24CC", "U+24E6"}, {"U+24CD", "U+24E7"}, {"U+24CE", "U+24E8"},
    {"U+24CF", "U+24E9"}, {"U+2C00", "U+2C30"}, {"U+2C01", "U+2C31"}, {"U+2C02", "U+2C32"},
    {"U+2C03", "U+2C33"}, {"U+2C04", "U+2C34"}, {"U+2C05", "U+2C35"}, {"U+2C06", "U+2C36"},
    {"U+2C07", "U+2C37"}, {"U+2C08", "U+2C38"}, {"U+2C09", "U+2C39"}, {"U+2C0A", "U+2C3A"},
    {"U+2C0B", "U+2C3B"}, {"U+2C0C", "U+2C3C"}, {"U+2C0D", "U+2C3D"}, {"U+2C0E", "U+2C3E"},
    {"U+2C0F", "U+2C3F"}, {"U+2C10", "U+2C40"}, {"U+2C11", "U+2C41"}, {"U+2C12", "U+2C42"},
    {"U+2C13", "U+2C43"}, {"U+2C14", "U+2C44"}, {"U+2C15", "U+2C45"}, {"U+2C16", "U+2C46"},
    {"U+2C17", "U+2C47"}, {"U+2C18", "U+2C48"}, {"U+2C19", "U+2C49"}, {"U+2C1A", "U+2C4A"},
    {"U+2C1B", "U+2C4B"}, {"U+2C1C", "U+2C4C"}, {"U+2C1D", "U+2C4D"}, {"U+2C1E", "U+2C4E"},
    {"U+2C1F", "U+2C4F"}, {"U+2C20", "U+2C50"}, {"U+2C21", "U+2C51"}, {"U+2C22", "U+2C52"},
    {"U+2C23", "U+2C53"}, {"U+2C24", "U+2C54"}, {"U+2C25", "U+2C55"}, {"U+2C26", "U+2C56"},
    {"U+2C27", "U+2C57"}, {"U+2C28", "U+2C58"}, {"U+2C29", "U+2C59"}, {"U+2C2A", "U+2C5A"},
    {"U+2C2B", "U+2C5B"}, {"U+2C2C", "U+2C5C"}, {"U+2C2D", "U+2C5D"}, {"U+2C2E", "U+2C5E"},
    {"U+2C2F", "U+2C5F"}, {"U+2C60", "U+2C61"}, {"U+2C67", "U+2C68"}, {"U+2C69", "U+2C6A"},
    {"U+2C6B", "U+2C6C"}, {"U+2C72", "U+2C73"}, {"U+2C75", "U+2C76"}, {"U+2C80", "U+2C81"},
    {"U+2C82", "U+2C83"}, {"U+2C84", "U+2C85"}, {"U+2C86", "U+2C87"}, {"U+2C88", "U+2C89"},
    {"U+2C8A", "U+2C8B"}, {"U+2C8C", "U+2C8D"}, {"U+2C8E", "U+2C8F"}, {"U+2C90", "U+2C91"},
    {"U+2C92", "U+2C93"}, {"U+2C94", "U+2C95"}, {"U+2C96", "U+2C97"}, {"U+2C98", "U+2C99"},
    {"U+2C9A", "U+2C9B"}, {"U+2C9C", "U+2C9D"}, {"U+2C9E", "U+2C9F"}, {"U+2CA0", "U+2CA1"},
    {"U+2CA2", "U+2CA3"}, {"U+2CA4", "U+2CA5"}, {"U+2CA6", "U+2CA7"}, {"U+2CA8", "U+2CA9"},
    {"U+2CAA", "U+2CAB"}, {"U+2CAC", "U+2CAD"}, {"U+2CAE", "U+2CAF"}, {"U+2CB0", "U+2CB1"},
    {"U+2CB2", "U+2CB3"}, {"U+2CB4", "U+2CB5"}, {"U+2CB6", "U+2CB7"}, {"U+2CB8", "U+2CB9"},
    {"U+2CBA", "U+2CBB"}, {"U+2CBC", "U+2CBD"}, {"U+2CBE", "U+2CBF"}, {"U+2CC0", "U+2CC1"},
    {"U+2CC2", "U+2CC3"}, {"U+2CC4", "U+2CC5"}, {"U+2CC6", "U+2CC7"}, {"U+2CC8", "U+2CC9"},
    {"U+2CCA", "U+2CCB"}, {"U+2CCC", "U+2CCD"}, {"U+2CCE", "U+2CCF"}, {"U+2CD0", "U+2CD1"},
    {"U+2CD2", "U+2CD3"}, {"U+2CD4", "U+2CD5"}, {"U+2CD6", "U+2CD7"}, {"U+2CD8", "U+2CD9"},
    {"U+2CDA", "U+2CDB"}, {"U+2CDC", "U+2CDD"}, {"U+2CDE", "U+2CDF"}, {"U+2CE0", "U+2CE1"},
    {"U+2CE2", "U+2CE3"}, {"U+2CEB", "U+2CEC"}, {"U+2CED", "U+2CEE"}, {"U+2CF2", "U+2CF3"},
    {"U+A640", "U+A641"}, {"U+A642", "U+A643"}, {"U+A644", "U+A645"}, {"U+A646", "U+A647"},
    {"U+A648", "U+A649"}, {"U+A64C", "U+A64D"}, {"U+A64E", "U+A64F"}, {"U+A650", "U+A651"},
    {"U+A652", "U+A653"}, {"U+A654", "U+A655"}, {"U+A656", "U+A657"}, {"U+A658", "U+A659"},
    {"U+A65A", "U+A65B"}, {"U+A65C", "U+A65D"}, {"U+A65E", "U+A65F"}, {"U+A660", "U+A661"},
    {"U+A662", "U+A663"}, {"U+A664", "U+A665"}, {"U+A666", "U+A667"}, {"U+A668", "U+A669"},
    {"U+A66A", "U+A66B"}, {"U+A66C", "U+A66D"}, {"U+A680", "U+A681"}, {"U+A682", "U+A683"},
    {"U+A684", "U+A685"}, {"U+A686", "U+A687"}, {"U+A688", "U+A689"}, {"U+A68A", "U+A68B"},
    {"U+A68C", "U+A68D"}, {"U+A68E", "U+A68F"}, {"U+A690", "U+A691"}, {"U+A692", "U+A693"},
    {"U+A694", "U+A695"}, {"U+A696", "U+A697"}, {"U+A698", "U+A699"}, {"U+A69A", "U+A69B"},
    {"U+A722", "U+A723"}, {"U+A724", "U+A725"}, {"U+A726", "U+A727"}, {"U+A728", "U+A729"},
    {"U+A72A", "U+A72B"}, {"U+A72C", "U+A72D"}, {"U+A72E", "U+A72F"}, {"U+A732", "U+A733"},
    {"U+A734", "U+A735"}, {"U+A736", "U+A737"}, {"U+A738", "U+A739"}, {"U+A73A", "U+A73B"},
    {"U+A73C", "U+A73D"}, {"U+A73E", "U+A73F"}, {"U+A740", "U+A741"}, {"U+A742", "U+A743"},
    {"U+A744", "U+A745"}, {"U+A746", "U+A747"}, {"U+A748", "U+A749"}, {"U+A74A", "U+A74B"},
    {"U+A74C", "U+A74D"}, {"U+A74E", "U+A74F"}, {"U+A750", "U+A751"}, {"U+A752", "U+A753"},
    {"U+A754", "U+A755"}, {"U+A756", "U+A757"}, {"U+A758", "U+A759"}, {"U+A75A", "U+A75B"},
    {"U+A75C", "U+A75D"}, {"U+A75E", "U+A75F"}, {"U+A760", "U+A761"}, {"U+A762", "U+A763"},
    {"U+A764", "U+A765"}, {"U+A766", "U+A767"}, {"U+A768", "U+A769"}, {"U+A76A", "U+A76B"},
    {"U+A76C", "U+A76D"}, {"U+A76E", "U+A76F"}, {"U+A779", "U+A77A"}, {"U+A77B", "U+A77C"},
    {"U+A77E", "U+A77F"}, {"U+A780", "U+A781"}, {"U+A782", "U+A783"}, {"U+A784", "U+A785"},
    {"U+A786", "U+A787"}, {"U+A78B", "U+A78C"}, {"U+A790", "U+A791"}, {"U+A792", "U+A793"},
    {"U+A794", "U+A7C4"}, {"U+A796", "U+A797"}, {"U+A798", "U+A799"}, {"U+A79A", "U+A79B"},
    {"U+A79C", "U+A79D"}, {"U+A79E", "U+A79F"}, {"U+A7A0", "U+A7A1"}, {"U+A7A2", "U+A7A3"},
    {"U+A7A4", "U+A7A5"}, {"U+A7A6", "U+A7A7"}, {"U+A7A8", "U+A7A9"}, {"U+A7B3", "U+AB53"},
    {"U+A7B4", "U+A7B5"}, {"U+A7B6", "U+A7B7"}, {"U+A7B8", "U+A7B9"}, {"U+A7BA", "U+A7BB"},
    {"U+A7BC", "U+A7BD"}, {"U+A7BE", "U+A7BF"}, {"U+A7C0", "U+A7C1"}, {"U+A7C2", "U+A7C3"},
    {"U+A7C7", "U+A7C8"}, {"U+A7C9", "U+A7CA"}, {"U+A7D0", "U+A7D1"}, {"U+A7D6", "U+A7D7"},
    {"U+A7D8", "U+A7D9"}, {"U+A7F5", "U+A7F6"}, {"U+FF21", "U+FF41"}, {"U+FF22", "U+FF42"},
    {"U+FF23", "U+FF43"}, {"U+FF24", "U+FF44"}, {"U+FF25", "U+FF45"}, {"U+FF26", "U+FF46"},
    {"U+FF27", "U+FF47"}, {"U+FF28", "U+FF48"}, {"U+FF29", "U+FF49"}, {"U+FF2A", "U+FF4A"},
    {"U+FF2B", "U+FF4B"}, {"U+FF2C", "U+FF4C"}, {"U+FF2D", "U+FF4D"}, {"U+FF2E", "U+FF4E"},
    {"U+FF2F", "U+FF4F"}, {"U+FF30", "U+FF50"}, {"U+FF31", "U+FF51"}, {"U+FF32", "U+FF52"},
    {"U+FF33", "U+FF53"}, {"U+FF34", "U+FF54"}, {"U+FF35", "U+FF55"}, {"U+FF36", "U+FF56"},
    {"U+FF37", "U+FF57"}, {"U+FF38", "U+FF58"}, {"U+FF39", "U+FF59"}, {"U+FF3A", "U+FF5A"},
    {"U+10400", "U+10428"}, {"U+10401", "U+10429"}, {"U+10402", "U+1042A"}, {"U+10403", "U+1042B"},
    {"U+10404", "U+1042C"}, {"U+10405", "U+1042D"}, {"U+10406", "U+1042E"}, {"U+10407", "U+1042F"},
    {"U+10408", "U+10430"}, {"U+10409", "U+10431"}, {"U+1040A", "U+10432"}, {"U+1040B", "U+10433"},
    {"U+1040C", "U+10434"}, {"U+1040D", "U+10435"}, {"U+1040E", "U+10436"}, {"U+1040F", "U+10437"},
    {"U+10410", "U+10438"}, {"U+10411", "U+10439"}, {"U+10412", "U+1043A"}, {"U+10413", "U+1043B"},
    {"U+10414", "U+1043C"}, {"U+10415", "U+1043D"}, {"U+10416", "U+1043E"}, {"U+10417", "U+1043F"},
    {"U+10418", "U+10440"}, {"U+10419", "U+10441"}, {"U+1041A", "U+10442"}, {"U+1041B", "U+10443"},
    {"U+1041C", "U+10444"}, {"U+1041D", "U+10445"}, {"U+1041E", "U+10446"}, {"U+1041F", "U+10447"},
    {"U+10420", "U+10448"}, {"U+10421", "U+10449"}, {"U+10422", "U+1044A"}, {"U+10423", "U+1044B"},
    {"U+10424", "U+1044C"}, {"U+10425", "U+1044D"}, {"U+10426", "U+1044E"}, {"U+10427", "U+1044F"},
    {"U+104B0", "U+104D8"}, {"U+104B1", "U+104D9"}, {"U+104B2", "U+104DA"}, {"U+104B3", "U+104DB"},
    {"U+104B4", "U+104DC"}, {"U+104B5", "U+104DD"}, {"U+104B6", "U+104DE"}, {"U+104B7", "U+104DF"},
    {"U+104B8", "U+104E0"}, {"U+104B9", "U+104E1"}, {"U+104BA", "U+104E2"}, {"U+104BB", "U+104E3"},
    {"U+104BC", "U+104E4"}, {"U+104BD", "U+104E5"}, {"U+104BE", "U+104E6"}, {"U+104BF", "U+104E7"},
    {"U+104C0", "U+104E8"}, {"U+104C1", "U+104E9"}, {"U+104C2", "U+104EA"}, {"U+104C3", "U+104EB"},
    {"U+104C4", "U+104EC"}, {"U+104C5", "U+104ED"}, {"U+104C6", "U+104EE"}, {"U+104C7", "U+104EF"},
    {"U+104C8", "U+104F0"}, {"U+104C9", "U+104F1"}, {"U+104CA", "U+104F2"}, {"U+104CB", "U+104F3"},
    {"U+104CC", "U+104F4"}, {"U+104CD", "U+104F5"}, {"U+104CE", "U+104F6"}, {"U+104CF", "U+104F7"},
    {"U+104D0", "U+104F8"}, {"U+104D1", "U+104F9"}, {"U+104D2", "U+104FA"}, {"U+104D3", "U+104FB"},
    {"U+10570", "U+10597"}, {"U+10571", "U+10598"}, {"U+10572", "U+10599"}, {"U+10573", "U+1059A"},
    {"U+10574", "U+1059B"}, {"U+10575", "U+1059C"}, {"U+10576", "U+1059D"}, {"U+10577", "U+1059E"},
    {"U+10578", "U+1059F"}, {"U+10579", "U+105A0"}, {"U+1057A", "U+105A1"}, {"U+1057C", "U+105A3"},
    {"U+1057D", "U+105A4"}, {"U+1057E", "U+105A5"}, {"U+1057F", "U+105A6"}, {"U+10580", "U+105A7"},
    {"U+10581", "U+105A8"}, {"U+10582", "U+105A9"}, {"U+10583", "U+105AA"}, {"U+10584", "U+105AB"},
    {"U+10585", "U+105AC"}, {"U+10586", "U+105AD"}, {"U+10587", "U+105AE"}, {"U+10588", "U+105AF"},
    {"U+10589", "U+105B0"}, {"U+1058A", "U+105B1"}, {"U+1058C", "U+105B3"}, {"U+1058D", "U+105B4"},
    {"U+1058E", "U+105B5"}, {"U+1058F", "U+105B6"}, {"U+10590", "U+105B7"}, {"U+10591", "U+105B8"},
    {"U+10592", "U+105B9"}, {"U+10594", "U+105BB"}, {"U+10595", "U+105BC"}, {"U+10C80", "U+10CC0"},
    {"U+10C81", "U+10CC1"}, {"U+10C82", "U+10CC2"}, {"U+10C83", "U+10CC3"}, {"U+10C84", "U+10CC4"},
    {"U+10C85", "U+10CC5"}, {"U+10C86", "U+10CC6"}, {"U+10C87", "U+10CC7"}, {"U+10C88", "U+10CC8"},
    {"U+10C89", "U+10CC9"}, {"U+10C8A", "U+10CCA"}, {"U+10C8B", "U+10CCB"}, {"U+10C8C", "U+10CCC"},
    {"U+10C8D", "U+10CCD"}, {"U+10C8E", "U+10CCE"}, {"U+10C8F", "U+10CCF"}, {"U+10C90", "U+10CD0"},
    {"U+10C91", "U+10CD1"}, {"U+10C92", "U+10CD2"}, {"U+10C93", "U+10CD3"}, {"U+10C94", "U+10CD4"},
    {"U+10C95", "U+10CD5"}, {"U+10C96", "U+10CD6"}, {"U+10C97", "U+10CD7"}, {"U+10C98", "U+10CD8"},
    {"U+10C99", "U+10CD9"}, {"U+10C9A", "U+10CDA"}, {"U+10C9B", "U+10CDB"}, {"U+10C9C", "U+10CDC"},
    {"U+10C9D", "U+10CDD"}, {"U+10C9E", "U+10CDE"}, {"U+10C9F", "U+10CDF"}, {"U+10CA0", "U+10CE0"},
    {"U+10CA1", "U+10CE1"}, {"U+10CA2", "U+10CE2"}, {"U+10CA3", "U+10CE3"}, {"U+10CA4", "U+10CE4"},
    {"U+10CA5", "U+10CE5"}, {"U+10CA6", "U+10CE6"}, {"U+10CA7", "U+10CE7"}, {"U+10CA8", "U+10CE8"},
    {"U+10CA9", "U+10CE9"}, {"U+10CAA", "U+10CEA"}, {"U+10CAB", "U+10CEB"}, {"U+10CAC", "U+10CEC"},
    {"U+10CAD", "U+10CED"}, {"U+10CAE", "U+10CEE"}, {"U+10CAF", "U+10CEF"}, {"U+10CB0", "U+10CF0"},
    {"U+10CB1", "U+10CF1"}, {"U+10CB2", "U+10CF2"}, {"U+118A0", "U+118C0"}, {"U+118A1", "U+118C1"},
    {"U+118A2", "U+118C2"}, {"U+118A3", "U+118C3"}, {"U+118A4", "U+118C4"}, {"U+118A5", "U+118C5"},
    {"U+118A6", "U+118C6"}, {"U+118A7", "U+118C7"}, {"U+118A8", "U+118C8"}, {"U+118A9", "U+118C9"},
    {"U+118AA", "U+118CA"}, {"U+118AB", "U+118CB"}, {"U+118AC", "U+118CC"}, {"U+118AD", "U+118CD"},
    {"U+118AE", "U+118CE"}, {"U+118AF", "U+118CF"}, {"U+118B0", "U+118D0"}, {"U+118B1", "U+118D1"},
    {"U+118B2", "U+118D2"}, {"U+118B3", "U+118D3"}, {"U+118B4", "U+118D4"}, {"U+118B5", "U+118D5"},
    {"U+118B6", "U+118D6"}, {"U+118B7", "U+118D7"}, {"U+118B8", "U+118D8"}, {"U+118B9", "U+118D9"},
    {"U+118BA", "U+118DA"}, {"U+118BB", "U+118DB"}, {"U+118BC", "U+118DC"}, {"U+118BD", "U+118DD"},
    {"U+118BE", "U+118DE"}, {"U+118BF", "U+118DF"}, {"U+16E40", "U+16E60"}, {"U+16E41", "U+16E61"},
    {"U+16E42", "U+16E62"}, {"U+16E43", "U+16E63"}, {"U+16E44", "U+16E64"}, {"U+16E45", "U+16E65"},
    {"U+16E46", "U+16E66"}, {"U+16E47", "U+16E67"}, {"U+16E48", "U+16E68"}, {"U+16E49", "U+16E69"},
    {"U+16E4A", "U+16E6A"}, {"U+16E4B", "U+16E6B"}, {"U+16E4C", "U+16E6C"}, {"U+16E4D", "U+16E6D"},
    {"U+16E4E", "U+16E6E"}, {"U+16E4F", "U+16E6F"}, {"U+16E50", "U+16E70"}, {"U+16E51", "U+16E71"},
    {"U+16E52", "U+16E72"}, {"U+16E53", "U+16E73"}, {"U+16E54", "U+16E74"}, {"U+16E55", "U+16E75"},
    {"U+16E56", "U+16E76"}, {"U+16E57", "U+16E77"}, {"U+16E58", "U+16E78"}, {"U+16E59", "U+16E79"},
    {"U+16E5A", "U+16E7A"}, {"U+16E5B", "U+16E7B"}, {"U+16E5C", "U+16E7C"}, {"U+16E5D", "U+16E7D"},
    {"U+16E5E", "U+16E7E"}, {"U+16E5F", "U+16E7F"}, {"U+1E900", "U+1E922"}, {"U+1E901", "U+1E923"},
    {"U+1E902", "U+1E924"}, {"U+1E903", "U+1E925"}, {"U+1E904", "U+1E926"}, {"U+1E905", "U+1E927"},
    {"U+1E906", "U+1E928"}, {"U+1E907", "U+1E929"}, {"U+1E908", "U+1E92A"}, {"U+1E909", "U+1E92B"},
    {"U+1E90A", "U+1E92C"}, {"U+1E90B", "U+1E92D"}, {"U+1E90C", "U+1E92E"}, {"U+1E90D", "U+1E92F"},
    {"U+1E90E", "U+1E930"}, {"U+1E90F", "U+1E931"}, {"U+1E910", "U+1E932"}, {"U+1E911", "U+1E933"},
    {"U+1E912", "U+1E934"}, {"U+1E913", "U+1E935"}, {"U+1E914", "U+1E936"}, {"U+1E915", "U+1E937"},
    {"U+1E916", "U+1E938"}, {"U+1E917", "U+1E939"}, {"U+1E918", "U+1E93A"}, {"U+1E919", "U+1E93B"},
    {"U+1E91A", "U+1E93C"}, {"U+1E91B", "U+1E93D"}, {"U+1E91C", "U+1E93E"}, {"U+1E91D", "U+1E93F"},
    {"U+1E91E", "U+1E940"}, {"U+1E91F", "U+1E941"}, {"U+1E920", "U+1E942"}, {"U+1E921", "U+1E943"}}

\* the runes of these orbits
WideRunes == UNION WideOrbits

\* the orbits of unicode.SimpleFold: a letter with its other cases
FoldOrbits ==
    {{Lower[i], Upper[i]} : i \in {j \in 1..Len(Lower) : Lower[j] \notin WideRunes}}
    \cup WideOrbits

\* simple case folding of one rune: the runes unicode.SimpleFold reaches from it
Fold(c) ==
    IF c \in WideRunes THEN UNION {o \in WideOrbits : c \in o}
    ELSE IF \E i \in 1..Len(Lower) : c \in {Lower[i], Upper[i]}
    THEN UNION {{Lower[i], Upper[i]} : i \in {j \in 1..Len(Lower) : c \in {Lower[j], Upper[j]}}}
    ELSE {c}

\* strings.EqualFold: rune by rune, the same rune or one of its orbit
EqualFold(s, t) ==
    /\ Len(s) = Len(t)
    /\ \A i \in 1..Len(s) : s[i] = t[i] \/ t[i] \in Fold(s[i])

\* strings.Contains
Contains(s, sub) ==
    \E k \in 0..Len(s) :
        /\ k + Len(sub) <= Len(s)
        /\ \A i \in 1..Len(sub) : s[k + i] = sub[i]

Digits == <<"0","1","2","3","4","5","6","7","8","9">>

RECURSIVE FormatUint(_)
\* %v of a uint32: its decimal digits
FormatUint(n) ==
    IF n < 10 THEN <<Digits[n + 1]>>
    ELSE FormatUint(n \div 10) \o <<Digits[(n % 10) + 1]>>

-----------------------------------------------------------------------------
(* Constants of the program *)

HTTPListener == "envoy.http_connection_manager"
TCPListener == "envoy.tcp_proxy"
\* util.BlackHoleCluster
BlackHoleCluster == <<"B","l","a","c","k","H","o","l","e","C","l","u","s","t","e","r">>
\* v3.ListenerType and the v2 type URL it replaces
ListenerType == "type.googleapis.com/envoy.config.listener.v3.Listener"
ListenerTypeV2 == "type.googleapis.com/envoy.api.v2.Listener"

TypeHTTP == <<"H","T","T","P">>
TypeTCP == <<"T","C","P">>
TypeHTTPTCP == <<"H","T","T","P","+","T","C","P">>
TypeUNKNOWN == <<"U","N","K","N","O","W","N">>

ErrNotPrimed == "config writer has not been primed"
ErrListenerDump == "listener dump: config dump has no listener dump"
ErrUnmarshal == "unmarshal listener: proto: cannot parse"
ErrNoListeners == "no listeners found"
ErrMarshal == "failed to marshal listeners"
ErrFlush == "write error"
Panic == "panic: invalid memory address or nil pointer dereference"
PanicTabwriter == "panic: tabwriter: panic during Write or Flush"

-----------------------------------------------------------------------------
(* Listeners *)

\* a filter: its name and the bytes of its typed config (none: no bytes)
MkFilter(name, cfg) == [name |-> name, typedConfig |-> cfg]

FHttp == MkFilter(HTTPListener, <<"r","d","s">>)
FTcp == MkFilter(TCPListener, <<"c","l","u","s","t","e","r">>)
FTcpNoConfig == MkFilter(TCPListener, <<>>)
FTcpBlackHole == MkFilter(TCPListener, <<"x">> \o BlackHoleCluster \o <<"y">>)
FOther == MkFilter("envoy.filters.network.rbac", BlackHoleCluster)

\* l.Address: a socket address, another kind of address (a pipe), or nil
SocketAddress(a, p) == [kind |-> "socket", address |-> a, port |-> p]
PipeAddress == [kind |-> "pipe", address |-> <<>>, port |-> 0]
NilAddress == [kind |-> "nil", address |-> <<>>, port |-> 0]

MkListener(addr, chains) == [address |-> addr, filterChains |-> chains]

-----------------------------------------------------------------------------
(* The classifier *)

RECURSIVE CountFiltersAnyTcp(_, _, _)
\* a variant that counts every TCP proxy filter, whatever its configuration
CountFiltersAnyTcp(fs, i, c) ==
    IF i > Len(fs) THEN c
    ELSE IF fs[i].name = HTTPListener
         THEN CountFiltersAnyTcp(fs, i + 1, <<c[1] + 1, c[2]>>)
    ELSE IF fs[i].name = TCPListener
         THEN CountFiltersAnyTcp(fs, i + 1, <<c[1], c[2] + 1>>)
    ELSE CountFiltersAnyTcp(fs, i + 1, c)

RECURSIVE CountFilters(_, _, _)
\* the inner loop: one filter chain's filters, from filter i, c = <<nHTTP, nTCP>>
CountFilters(fs, i, c) ==
    IF i > Len(fs) THEN c
    ELSE IF fs[i].name = HTTPListener
         THEN CountFilters(fs, i + 1, <<c[1] + 1, c[2]>>)
    ELSE IF fs[i].name = TCPListener
         THEN IF ~Contains(fs[i].typedConfig, BlackHoleCluster)
              THEN CountFilters(fs, i + 1, <<c[1], c[2] + 1>>)
              ELSE CountFilters(fs, i + 1, c)
    ELSE CountFilters(fs, i + 1, c)

RECURSIVE CountChains(_, _, _)
\* the outer loop: the listener's filter chains, from chain i
CountChains(chains, i, c) ==
    IF i > Len(chains) THEN c
    ELSE CountChains(chains, i + 1, CountFilters(chains[i], 1, c))

\* a variant that reads the first filter chain only
retrieveListenerTypeFirstChain(l) ==
    LET c == IF l.filterChains = <<>> THEN <<0, 0>>
             ELSE CountFilters(l.filterChains[1], 1, <<0, 0>>)
    IN  IF c[1] > 0 THEN (IF c[2] = 0 THEN TypeHTTP ELSE TypeHTTPTCP)
        ELSE IF c[2] > 0 THEN TypeTCP
        ELSE TypeUNKNOWN

retrieveListenerType(l) ==
    LET c == CountChains(l.filterChains, 1, <<0, 0>>)
    IN  IF c[1] > 0 THEN (IF c[2] = 0 THEN TypeHTTP ELSE TypeHTTPTCP)
        ELSE IF c[2] > 0 THEN TypeTCP
        ELSE TypeUNKNOWN

\* l.Address.GetSocketAddress().Address: the nil-safe getter yields nil for an
\* address that is no socket address, and reading the field of nil panics
retrieveListenerAddress(l) ==
    IF l.address.kind = "socket"
    THEN [panic |-> FALSE, value |-> l.address.address]
    ELSE [panic |-> TRUE, value |-> <<>>]

\* l.Address.GetSocketAddress().GetPortValue(): nil-safe all the way
retrieveListenerPort(l) ==
    IF l.address.kind = "socket" THEN l.address.port ELSE 0

-----------------------------------------------------------------------------
(* ListenerFilter *)

MkFilterSpec(a, p, t) == [Address |-> a, Port |-> p, Type |-> t]

\* a variant that never compares the port
VerifyPortIgnored(f, l) ==
    IF f.Address = <<>> /\ f.Port = 0 /\ f.Type = <<>> THEN "true"
    ELSE IF f.Address # <<>> /\ retrieveListenerAddress(l).panic THEN "panic"
    ELSE IF f.Address # <<>> /\ ~EqualFold(retrieveListenerAddress(l).value, f.Address)
         THEN "false"
    ELSE IF f.Type # <<>> /\ ~EqualFold(retrieveListenerType(l), f.Type) THEN "false"
    ELSE "true"

\* Verify: "true", "false", or "panic" when it reads the address of a listener
\* that has no socket address
Verify(f, l) ==
    IF f.Address = <<>> /\ f.Port = 0 /\ f.Type = <<>> THEN "true"
    ELSE IF f.Address # <<>> /\ retrieveListenerAddress(l).panic THEN "panic"
    ELSE IF f.Address # <<>> /\ ~EqualFold(retrieveListenerAddress(l).value, f.Address)
         THEN "false"
    ELSE IF f.Port # 0 /\ retrieveListenerPort(l) # f.Port THEN "false"
    ELSE IF f.Type # <<>> /\ ~EqualFold(retrieveListenerType(l), f.Type) THEN "false"
    ELSE "true"

-----------------------------------------------------------------------------
(* Values of the variables a specification does not use *)

NoFilter == MkFilterSpec(<<>>, 0, <<>>)
NoListener == MkListener(NilAddress, <<>>)
NilDump == [primed |-> FALSE, section |-> FALSE, dynamic |-> <<>>, static |-> <<>>]
NoInput == [l |-> NoListener, f |-> NoFilter]
NoOutput == [done |-> FALSE, value |-> <<>>]
NoCall == [valid |-> FALSE, op |-> "none", filter |-> NoFilter, err |-> "nil",
           sel |-> <<>>]

WriterUnused ==
    /\ configDump = NilDump
    /\ dump0 = NilDump
    /\ stdout = <<>>
    /\ pc = "idle"
    /\ filter = NoFilter
    /\ listeners = <<>>
    /\ idx = 1
    /\ buf = <<>>
    /\ widths = <<>>
    /\ verdicts = <<>>
    /\ op = "none"
    /\ ret = "none"
    /\ prev = NoCall

writerVars == <<configDump, dump0, stdout, pc, filter, listeners, idx, buf,
                widths, verdicts, op, ret, prev>>

-----------------------------------------------------------------------------
(* The classifier on every listener of up to MaxChains filter chains and   *)
(* MaxFilters filters                                                      *)

FilterKinds == {FHttp, FTcp, FTcpNoConfig, FTcpBlackHole, FOther}

RECURSIVE FilterSeqs(_)
\* the filter chains of at most m filters
FilterSeqs(m) ==
    IF m = 0 THEN {<<>>}
    ELSE FilterSeqs(m - 1)
         \cup {Append(s, k) : s \in {t \in FilterSeqs(m - 1) : Len(t) = m - 1},
                              k \in FilterKinds}

RECURSIVE ChainLists(_, _)
\* the lists of at most n filter chains holding at most b filters together
ChainLists(n, b) ==
    IF n = 0 THEN {<<>>}
    ELSE {<<>>} \cup UNION {{<<c>> \o r : r \in ChainLists(n - 1, b - Len(c))} :
                            c \in FilterSeqs(b)}

TypeInputs == {[l |-> MkListener(NilAddress, cs), f |-> NoFilter] :
                   cs \in ChainLists(MaxChains, MaxFilters)}

InitType ==
    /\ WriterUnused
    /\ fnIn \in TypeInputs
    /\ fnOut = NoOutput

ApplyType ==
    /\ ~fnOut.done
    /\ fnOut' = [done |-> TRUE, value |-> retrieveListenerType(fnIn.l)]
    /\ UNCHANGED <<fnIn, writerVars>>

NextType == ApplyType

SpecType == InitType /\ [][NextType]_vars

-----------------------------------------------------------------------------
(* Verify on every pair of a filter specification and a listener           *)

VerifyAddresses == {<<"a">>, <<"A">>, <<"b">>, <<"a", "b">>, <<>>, <<"U+00E9">>,
                    <<"U+00E5">>, <<"U+03B1", "U+03B2", "U+03B4">>}
VerifyPorts == {0, 80, 8080}
VerifyChains == {<<>>, <<<<FHttp>>>>, <<<<FTcp>>>>, <<<<FHttp>>, <<FTcp>>>>,
                 <<<<FTcpBlackHole>>>>}
VerifyListeners ==
    {MkListener(a, cs) :
        a \in {SocketAddress(s, p) : s \in VerifyAddresses, p \in VerifyPorts}
              \cup {PipeAddress, NilAddress},
        cs \in VerifyChains}
VerifyTypes == {<<>>, <<"t","c","p">>, TypeTCP, <<"h","t","t","p">>, TypeHTTP,
                <<"H","t","t","p","+","T","c","p">>, <<"u","n","k","n","o","w","n">>,
                <<"T","C">>, <<"u","n","U+212A","n","o","w","n">>}
VerifyFilters ==
    {MkFilterSpec(a, p, t) :
        a \in {<<>>, <<"a">>, <<"A">>, <<"B">>, <<"a", "b">>, <<"U+00C9">>, <<"U+212B">>,
               <<"U+0391", "U+0392", "U+0394">>},
        p \in VerifyPorts, t \in VerifyTypes}

InitVerify ==
    /\ WriterUnused
    /\ fnIn \in {[l |-> l, f |-> f] : l \in VerifyListeners, f \in VerifyFilters}
    /\ fnOut = NoOutput

ApplyVerify ==
    /\ ~fnOut.done
    /\ fnOut' = [done |-> TRUE, value |-> Verify(fnIn.f, fnIn.l)]
    /\ UNCHANGED <<fnIn, writerVars>>

NextVerify == ApplyVerify

SpecVerify == InitVerify /\ [][NextVerify]_vars

-----------------------------------------------------------------------------
(* The config dump *)

\* a type-tagged payload's bytes: ok when they parse as a Listener
GoodValue(l) == [ok |-> TRUE, listener |-> l]
CorruptValue == [ok |-> FALSE, listener |-> NoListener]

\* a dynamic entry (ActiveState, ActiveState.Listener) or a static entry
\* (Listener); activeState is read for dynamic entries only
NoActiveState == [activeState |-> FALSE, present |-> FALSE, typeUrl |-> "",
                  value |-> CorruptValue]
ActiveNoListener == [activeState |-> TRUE, present |-> FALSE, typeUrl |-> "",
                     value |-> CorruptValue]
DynamicPayload(url, v) == [activeState |-> TRUE, present |-> TRUE, typeUrl |-> url,
                           value |-> v]
NoStaticListener == NoActiveState
StaticPayload(url, v) == [activeState |-> FALSE, present |-> TRUE, typeUrl |-> url,
                          value |-> v]

LHttp == MkListener(SocketAddress(<<":", ":", "a">>, 80), <<<<FHttp>>>>)
LTcp == MkListener(SocketAddress(<<":", ":", "B">>, 8080), <<<<FTcp>>>>)
LPipe == MkListener(PipeAddress, <<<<FTcp>>>>)

DumpValues == {GoodValue(l) : l \in {LHttp, LTcp, LPipe}} \cup {CorruptValue}
TypeUrls == {ListenerType, ListenerTypeV2}
DynamicEntries == {NoActiveState, ActiveNoListener}
                  \cup {DynamicPayload(u, v) : u \in TypeUrls, v \in DumpValues}
StaticEntries == {NoStaticListener}
                 \cup {StaticPayload(u, v) : u \in TypeUrls, v \in DumpValues}

RECURSIVE SeqsUpTo(_, _)
SeqsUpTo(S, n) ==
    IF n = 0 THEN {<<>>}
    ELSE SeqsUpTo(S, n - 1)
         \cup {Append(q, x) : q \in {t \in SeqsUpTo(S, n - 1) : Len(t) = n - 1}, x \in S}

NoSectionDump == [primed |-> TRUE, section |-> FALSE, dynamic |-> <<>>, static |-> <<>>]

Dumps ==
    {NilDump, NoSectionDump}
    \cup UNION {{[primed |-> TRUE, section |-> TRUE, dynamic |-> d, static |-> s] :
                    s \in SeqsUpTo(StaticEntries, MaxEntries - Len(d))} :
                d \in SeqsUpTo(DynamicEntries, MaxEntries)}

FilterSpecs ==
    {MkFilterSpec(a, p, t) : a \in {<<>>, <<":", ":", "A">>}, p \in {0, 80},
                             t \in {<<>>, <<"t", "c", "p">>}}

-----------------------------------------------------------------------------
(* The extractor *)

\* c.configDump.GetListenerConfigDump(): the listener section, or an error
GetListenerConfigDump(d) == [ok |-> d.section, dynamic |-> d.dynamic, static |-> d.static]

\* ptypes.UnmarshalAny(any, &listener.Listener{}): the declared type must be
\* the Listener's, and the bytes must parse
UnmarshalAny(any) ==
    IF any.typeUrl # ListenerType THEN [err |-> TRUE, listener |-> NoListener]
    ELSE IF ~any.value.ok THEN [err |-> TRUE, listener |-> NoListener]
    ELSE [err |-> FALSE, listener |-> any.value.listener]

\* the guard of each loop: the entry carries a listener payload
HasPayload(e, dynamic) == IF dynamic THEN e.activeState /\ e.present ELSE e.present

RECURSIVE DecodeEntriesSkipBad(_, _, _, _)
\* a variant that skips an entry that does not decode
DecodeEntriesSkipBad(entries, i, acc, dynamic) ==
    IF i > Len(entries) THEN [entries |-> entries, listeners |-> acc, err |-> FALSE]
    ELSE IF ~HasPayload(entries[i], dynamic)
         THEN DecodeEntriesSkipBad(entries, i + 1, acc, dynamic)
    ELSE LET e == [entries[i] EXCEPT !.typeUrl = ListenerType]
             r == UnmarshalAny(e)
             es == [entries EXCEPT ![i] = e]
         IN  IF r.err THEN DecodeEntriesSkipBad(es, i + 1, acc, dynamic)
             ELSE DecodeEntriesSkipBad(es, i + 1, Append(acc, r.listener), dynamic)

RECURSIVE DecodeEntriesLateRetag(_, _, _, _)
\* a variant that decodes under the declared type URL and overwrites it after
DecodeEntriesLateRetag(entries, i, acc, dynamic) ==
    IF i > Len(entries) THEN [entries |-> entries, listeners |-> acc, err |-> FALSE]
    ELSE IF ~HasPayload(entries[i], dynamic)
         THEN DecodeEntriesLateRetag(entries, i + 1, acc, dynamic)
    ELSE LET r == UnmarshalAny(entries[i])
             es == [entries EXCEPT ![i].typeUrl = ListenerType]
         IN  IF r.err THEN [entries |-> es, listeners |-> <<>>, err |-> TRUE]
             ELSE DecodeEntriesLateRetag(es, i + 1, Append(acc, r.listener), dynamic)

RECURSIVE DecodeEntries(_, _, _, _)
\* one range loop of retrieveSortedListenerSlice from entry i: the entries with
\* the type URLs it has overwritten, the listeners appended to acc, and whether
\* it returned an unmarshal error
DecodeEntries(entries, i, acc, dynamic) ==
    IF i > Len(entries) THEN [entries |-> entries, listeners |-> acc, err |-> FALSE]
    ELSE IF ~HasPayload(entries[i], dynamic)
         THEN DecodeEntries(entries, i + 1, acc, dynamic)
    ELSE LET e == [entries[i] EXCEPT !.typeUrl = ListenerType]
             r == UnmarshalAny(e)
             es == [entries EXCEPT ![i] = e]
         IN  IF r.err THEN [entries |-> es, listeners |-> <<>>, err |-> TRUE]
             ELSE DecodeEntries(es, i + 1, Append(acc, r.listener), dynamic)

Extracted(d, ls, e) == [dump |-> d, listeners |-> ls, err |-> e]

\* a variant that visits the static entries first
retrieveSortedListenerSliceStaticFirst(d) ==
    IF ~d.primed THEN Extracted(d, <<>>, ErrNotPrimed)
    ELSE IF ~GetListenerConfigDump(d).ok THEN Extracted(d, <<>>, ErrListenerDump)
    ELSE
    LET st == DecodeEntries(d.static, 1, <<>>, FALSE)
        d1 == [d EXCEPT !.static = st.entries]
    IN  IF st.err THEN Extracted(d1, <<>>, ErrUnmarshal)
        ELSE
        LET dyn == DecodeEntries(d.dynamic, 1, st.listeners, TRUE)
            d2 == [d1 EXCEPT !.dynamic = dyn.entries]
        IN  IF dyn.err THEN Extracted(d2, <<>>, ErrUnmarshal)
            ELSE IF Len(dyn.listeners) = 0 THEN Extracted(d2, <<>>, ErrNoListeners)
            ELSE Extracted(d2, dyn.listeners, "nil")

\* a variant without the final length check
retrieveSortedListenerSliceNoEmptyCheck(d) ==
    IF ~d.primed THEN Extracted(d, <<>>, ErrNotPrimed)
    ELSE IF ~GetListenerConfigDump(d).ok THEN Extracted(d, <<>>, ErrListenerDump)
    ELSE
    LET dyn == DecodeEntries(d.dynamic, 1, <<>>, TRUE)
        d1 == [d EXCEPT !.dynamic = dyn.entries]
    IN  IF dyn.err THEN Extracted(d1, <<>>, ErrUnmarshal)
        ELSE
        LET st == DecodeEntries(d.static, 1, dyn.listeners, FALSE)
            d2 == [d1 EXCEPT !.static = st.entries]
        IN  IF st.err THEN Extracted(d2, <<>>, ErrUnmarshal)
            ELSE Extracted(d2, st.listeners, "nil")

\* retrieveSortedListenerSlice: the dump as the call leaves it, the listeners
\* returned (none with an error) and the error ("nil": none)
retrieveSortedListenerSlice(d) ==
    IF ~d.primed THEN Extracted(d, <<>>, ErrNotPrimed)
    ELSE IF ~GetListenerConfigDump(d).ok THEN Extracted(d, <<>>, ErrListenerDump)
    ELSE
    LET dyn == DecodeEntries(d.dynamic, 1, <<>>, TRUE)
        d1 == [d EXCEPT !.dynamic = dyn.entries]
    IN  IF dyn.err THEN Extracted(d1, <<>>, ErrUnmarshal)
        ELSE
        LET st == DecodeEntries(d.static, 1, dyn.listeners, FALSE)
            d2 == [d1 EXCEPT !.static = st.entries]
        IN  IF st.err THEN Extracted(d2, <<>>, ErrUnmarshal)
            ELSE IF Len(st.listeners) = 0 THEN Extracted(d2, <<>>, ErrNoListeners)
            ELSE Extracted(d2, st.listeners, "nil")

\* setupListenerConfigWriter: the extraction; the tabwriter it builds on
\* c.Stdout starts empty
setupListenerConfigWriter(d) == retrieveSortedListenerSlice(d)

-----------------------------------------------------------------------------
(* The printers *)

\* a line the tabwriter holds, with its cells; the JSON array of a dump as
\* c.Stdout got it whole, and as it got a part of it (a strict prefix, not empty)
Line(cells) == [kind |-> "line", cells |-> cells, items |-> <<>>]
Json(items) == [kind |-> "json", cells |-> <<>>, items |-> items]
JsonPart(items) == [kind |-> "json-part", cells |-> <<>>, items |-> items]

\* new(tabwriter.Writer).Init(c.Stdout, 0, 8, 5, ' ', 0)
MinWidth == 0
Padding == 5
\* the tabwriter pads from a block of 8 pad characters
PadBytes == 8

\* the vertical tab, which has no escape in a string
VTab == "U+000B"
\* the characters that end a cell, and those that end a cell and its line
CellEnds == {"\t", VTab}
LineEnds == {"\n", "\f"}

Max(S) == CHOOSE x \in S : \A y \in S : y <= x

\* a Write of the tabwriter to c.Stdout, with the column widths the tabwriter
\* holds while it writes; a padding of negative length is no Write, the
\* tabwriter panics there
Write(bytes, ws) == [bytes |-> bytes, widths |-> ws, crash |-> FALSE]
Crash(ws) == [bytes |-> <<>>, widths |-> ws, crash |-> TRUE]

RECURSIVE PadWrites(_, _)
\* writeN: n pad characters, a Write per full block and one for the rest
PadWrites(n, ws) ==
    IF n < 0 THEN <<Crash(ws)>>
    ELSE IF n > PadBytes
    THEN <<Write([i \in 1..PadBytes |-> " "], ws)>> \o PadWrites(n - PadBytes, ws)
    ELSE <<Write([i \in 1..n |-> " "], ws)>>

RECURSIVE CellWrites(_, _, _)
\* writeLines for the cells of a line from cell j: the text of a cell that has
\* some, then the padding of a cell whose column has a width
CellWrites(cells, j, ws) ==
    IF j > Len(cells) THEN <<>>
    ELSE (IF cells[j] # <<>> THEN <<Write(cells[j], ws)>> ELSE <<>>)
         \o (IF j <= Len(ws) THEN PadWrites(ws[j] - Len(cells[j]), ws) ELSE <<>>)
         \o CellWrites(cells, j + 1, ws)

RECURSIVE WriteLines(_, _, _, _)
\* writeLines for the lines line0 .. line1 - 1: the cells of each and its
\* newline; the last line of the buffer is open and ends with its (empty) cell
WriteLines(lines, line0, line1, ws) ==
    IF line0 >= line1 THEN <<>>
    ELSE CellWrites(lines[line0].cells, 1, ws)
         \o <<Write(IF line0 = Len(lines) THEN <<>> ELSE <<"\n">>, ws)>>
         \o WriteLines(lines, line0 + 1, line1, ws)

\* a line has a cell in a column (counted from 0) when the cell is not its last
HasColumn(line, column) == column < Len(line.cells) - 1

RECURSIVE BlockStart(_, _, _, _)
\* the first line from `this` that has a cell in the column, or line1
BlockStart(lines, this, line1, column) ==
    IF this >= line1 \/ HasColumn(lines[this], column) THEN this
    ELSE BlockStart(lines, this + 1, line1, column)

RECURSIVE BlockEnd(_, _, _, _)
\* the first line from `this` that has no cell in the column, or line1
BlockEnd(lines, this, line1, column) ==
    IF this >= line1 \/ ~HasColumn(lines[this], column) THEN this
    ELSE BlockEnd(lines, this + 1, line1, column)

RECURSIVE Format(_, _, _, _)
\* format for the lines line0 .. line1 - 1 under the widths ws of the columns
\* to the left: the lines before the first block of the next column are
\* written, the block is formatted with the width of its column pushed (its
\* widest cell and the padding), and so on from the end of the block
Format(lines, line0, line1, ws) ==
    LET column == Len(ws)
        this == BlockStart(lines, line0, line1, column)
    IN  IF this >= line1 THEN WriteLines(lines, line0, line1, ws)
        ELSE LET end == BlockEnd(lines, this, line1, column)
                 width == Max({MinWidth} \cup
                              {Len(lines[i].cells[column + 1]) + Padding :
                                   i \in this..(end - 1)})
             IN  WriteLines(lines, line0, this, ws)
                 \o Format(lines, this, end, Append(ws, width))
                 \o Format(lines, end, line1, ws)

\* the Writes of a flush in order, for the terminated lines the tabwriter holds
\* (its open line is empty) and the widths ws it starts from
FlushWrites(lines, ws) ==
    LET all == Append(lines, Line(<<>>))
    IN  Format(all, 1, Len(all) + 1, ws)

RECURSIVE Concat(_)
Concat(ss) == IF ss = <<>> THEN <<>> ELSE Head(ss) \o Concat(Tail(ss))

\* the bytes of a run of Writes
Bytes(ws) == Concat([i \in 1..Len(ws) |-> ws[i].bytes])

\* a sink that takes `accepts` Writes in full and of the next one `takes`
\* bytes, returning an error with it
Sink(q, k) == [accepts |-> q, takes |-> k]

\* the sinks told apart by the Writes ws: one that takes them all, and those
\* that fail at a Write having taken some of its bytes, from none to all
Sinks(ws) ==
    {Sink(Len(ws), 0)}
    \cup UNION {{Sink(q, k) : k \in 0..Len(ws[q + 1].bytes)} : q \in 0..(Len(ws) - 1)}

\* write0 over the Writes ws on a sink: what reaches the stream, how the flush
\* ends ("ok", "failed" at a Write, "crash" at a padding of negative length)
\* and the widths it leaves pushed when it does not end well
WriteAll(ws, sink) ==
    LET crashes == {i \in 1..Len(ws) : ws[i].crash}
        c == IF crashes = {} THEN Len(ws) + 1
             ELSE CHOOSE i \in crashes : \A j \in crashes : i <= j
    IN  IF sink.accepts >= c - 1
        THEN [out |-> Bytes(SubSeq(ws, 1, c - 1)),
              end |-> IF c > Len(ws) THEN "ok" ELSE "crash",
              widths |-> IF c > Len(ws) THEN <<>> ELSE ws[c].widths]
        ELSE [out |-> Bytes(SubSeq(ws, 1, sink.accepts))
                      \o SubSeq(ws[sink.accepts + 1].bytes, 1, sink.takes),
              end |-> "failed",
              widths |-> ws[sink.accepts + 1].widths]

\* the outcomes of flushNoDefers on the lines held, over the sinks
Flush(lines, ws) ==
    LET writes == FlushWrites(lines, ws)
    IN  {WriteAll(writes, sink) : sink \in Sinks(writes)}

RECURSIVE TabWrite(_, _, _, _, _, _)
\* tabwriter.Write(text) on a tabwriter that holds the terminated lines `lines`,
\* the cells `line` of its open line, the text `cell` of its open cell and the
\* widths ws, after `out` has reached c.Stdout: a tab ends the cell, a newline
\* or form feed the cell and the line, and a line of one cell or a form feed
\* flushes. A flush that fails ends the Write with the lines still held and the
\* widths it had pushed; the rest of the text is lost.
TabWrite(lines, line, cell, ws, out, text) ==
    IF text = <<>>
    THEN {[buf |-> lines, line |-> line, cell |-> cell, widths |-> ws, out |-> out,
           end |-> "ok"]}
    ELSE IF Head(text) \in CellEnds
    THEN TabWrite(lines, Append(line, cell), <<>>, ws, out, Tail(text))
    ELSE IF Head(text) \in LineEnds
    THEN LET ended == Append(lines, Line(Append(line, cell)))
         IN  IF Head(text) = "\f" \/ line = <<>>
             THEN UNION {IF w.end = "ok"
                         THEN TabWrite(<<>>, <<>>, <<>>, <<>>, out \o w.out, Tail(text))
                         ELSE {[buf |-> ended, line |-> <<>>, cell |-> <<>>,
                                widths |-> w.widths, out |-> out \o w.out,
                                end |-> w.end]} :
                         w \in Flush(ended, ws)}
             ELSE TabWrite(ended, <<>>, <<>>, ws, out, Tail(text))
    ELSE TabWrite(lines, line, Append(cell, Head(text)), ws, out, Tail(text))

HeaderLine == Line(<<<<"A","D","D","R","E","S","S">>, <<"P","O","R","T">>,
                     <<"T","Y","P","E">>>>)

\* the text of fmt.Fprintf(w, "%v\t%v\t%v\n", address, port, listenerType)
RowText(l) ==
    retrieveListenerAddress(l).value \o <<"\t">>
    \o FormatUint(retrieveListenerPort(l)) \o <<"\t">>
    \o retrieveListenerType(l) \o <<"\n">>

Init ==
    /\ configDump \in Dumps
    /\ dump0 = configDump
    /\ stdout = <<>>
    /\ pc = "idle"
    /\ filter = NoFilter
    /\ listeners = <<>>
    /\ idx = 1
    /\ buf = <<>>
    /\ widths = <<>>
    /\ verdicts = <<>>
    /\ op = "none"
    /\ ret = "none"
    /\ prev = NoCall
    /\ fnIn = NoInput
    /\ fnOut = NoOutput

\* the start of a call, up to the return of setupListenerConfigWriter
Setup(f, o, first) ==
    LET r == setupListenerConfigWriter(configDump)
    IN  /\ pc \in {"idle", "done"}
        /\ dump0' = configDump
        /\ configDump' = r.dump
        /\ filter' = f
        /\ op' = o
        /\ listeners' = r.listeners
        /\ idx' = 1
        /\ verdicts' = <<>>
        /\ stdout' = <<>>
        /\ widths' = <<>>
        /\ IF r.err # "nil"
           THEN pc' = "done" /\ ret' = r.err /\ buf' = <<>>
           ELSE pc' = o /\ ret' = "none" /\ buf' = first
        /\ UNCHANGED <<fnIn, fnOut>>

\* PrintListenerSummary up to the header line, which the tabwriter holds: a
\* line of three cells does not flush
SummarySetup(f) == Setup(f, "summary", <<HeaderLine>>) /\ UNCHANGED prev

\* the body of PrintListenerSummary's loop for the listener l once Verify gave
\* v: the row goes to the tabwriter, which may flush; Fprintf's error is dropped
LoopBody(l, v) ==
    IF v = "panic" \/ (v = "true" /\ retrieveListenerAddress(l).panic)
    THEN /\ pc' = "panicked"
         /\ ret' = Panic
         /\ UNCHANGED <<buf, widths, stdout, verdicts, idx>>
    ELSE IF v = "false"
    THEN /\ verdicts' = Append(verdicts, v)
         /\ idx' = idx + 1
         /\ UNCHANGED <<pc, ret, buf, widths, stdout>>
    ELSE \E w \in TabWrite(buf, <<>>, <<>>, widths, stdout, RowText(l)) :
             /\ buf' = w.buf
             /\ widths' = w.widths
             /\ stdout' = w.out
             /\ verdicts' = Append(verdicts, v)
             /\ IF w.end = "crash"
                THEN pc' = "panicked" /\ ret' = PanicTabwriter /\ UNCHANGED idx
                ELSE idx' = idx + 1 /\ UNCHANGED <<pc, ret>>

\* a variant whose Verify, through its pointer receiver, stores the type it
\* compared in the filter
SummaryLoopNormalizesFilter ==
    /\ pc = "summary"
    /\ idx <= Len(listeners)
    /\ LoopBody(listeners[idx], Verify(filter, listeners[idx]))
    /\ filter' = IF pc' = "panicked" THEN filter
                 ELSE [filter EXCEPT !.Type = retrieveListenerType(listeners[idx])]
    /\ UNCHANGED <<configDump, dump0, listeners, op, prev, fnIn, fnOut>>

\* one iteration of PrintListenerSummary's loop: Verify, then the row
SummaryLoop ==
    /\ pc = "summary"
    /\ idx <= Len(listeners)
    /\ LoopBody(listeners[idx], Verify(filter, listeners[idx]))
    /\ UNCHANGED <<configDump, dump0, filter, listeners, op, prev, fnIn, fnOut>>

\* w.Flush(): the lines held go to c.Stdout Write by Write (a cell, a run of
\* padding, a newline); Flush returns the error of the first Write that fails,
\* with what the sink took until then left in the stream, and the tabwriter is
\* reset however the flush ends
SummaryFlush ==
    /\ pc = "summary"
    /\ idx > Len(listeners)
    /\ \E w \in Flush(buf, widths) :
        /\ stdout' = stdout \o w.out
        /\ IF w.end = "crash"
           THEN pc' = "panicked" /\ ret' = PanicTabwriter
           ELSE pc' = "done" /\ ret' = IF w.end = "ok" THEN "nil" ELSE ErrFlush
    /\ buf' = <<>>
    /\ widths' = <<>>
    /\ UNCHANGED <<configDump, dump0, filter, listeners, idx, verdicts, op,
                   prev, fnIn, fnOut>>

\* PrintListenerDump up to the empty filteredListeners
DumpSetup(f) == Setup(f, "dump", <<>>) /\ UNCHANGED prev

\* one iteration of PrintListenerDump's loop
DumpLoop ==
    /\ pc = "dump"
    /\ idx <= Len(listeners)
    /\ LET l == listeners[idx]
           v == Verify(filter, l)
       IN  IF v = "panic"
           THEN /\ pc' = "panicked"
                /\ ret' = Panic
                /\ UNCHANGED <<buf, verdicts, idx>>
           ELSE /\ buf' = IF v = "true" THEN Append(buf, l) ELSE buf
                /\ verdicts' = Append(verdicts, v)
                /\ idx' = idx + 1
                /\ UNCHANGED <<pc, ret>>
    /\ UNCHANGED <<configDump, dump0, stdout, widths, filter, listeners, op, prev,
                   fnIn, fnOut>>

\* json.MarshalIndent, which may fail, then fmt.Fprintln(c.Stdout, ...), one
\* Write whose error is dropped: the call returns nil whether the sink took the
\* text, a part of it or nothing
DumpMarshal ==
    /\ pc = "dump"
    /\ idx > Len(listeners)
    /\ \E marshalled \in BOOLEAN, taken \in {"all", "part", "nothing"} :
        IF ~marshalled
        THEN ret' = ErrMarshal /\ stdout' = <<>>
        ELSE /\ ret' = "nil"
             /\ stdout' = CASE taken = "all" -> <<Json(buf)>>
                            [] taken = "part" -> <<JsonPart(buf)>>
                            [] taken = "nothing" -> <<>>
    /\ pc' = "done"
    /\ UNCHANGED <<configDump, dump0, filter, listeners, idx, buf, widths, verdicts,
                   op, prev, fnIn, fnOut>>

Next ==
    \/ \E f \in FilterSpecs : SummarySetup(f)
    \/ SummaryLoop
    \/ SummaryFlush
    \/ \E f \in FilterSpecs : DumpSetup(f)
    \/ DumpLoop
    \/ DumpMarshal

Spec == Init /\ [][Next]_vars

-----------------------------------------------------------------------------
(* The printers on listeners whose address holds a character the tabwriter *)
(* reads, or is wider than the header's column                             *)

LTwoLines == MkListener(SocketAddress(<<"a", "\n", "b">>, 80), <<<<FHttp>>>>)
LTwoCells == MkListener(SocketAddress(<<"a", "\t", "b">>, 80), <<<<FHttp>>>>)
LLong == MkListener(SocketAddress(<<"2","0","0","1",":","d","b","8",":",":","a",":","b",
                                    ":","c">>, 80),
                    <<<<FHttp>>>>)

BreakDumps ==
    {[primed |-> TRUE, section |-> TRUE, dynamic |-> d, static |-> <<>>] :
        d \in SeqsUpTo({DynamicPayload(ListenerType, GoodValue(l)) :
                            l \in {LHttp, LTwoLines, LTwoCells, LLong}},
                       MaxEntries)}

InitBreak ==
    /\ configDump \in BreakDumps
    /\ dump0 = configDump
    /\ stdout = <<>>
    /\ pc = "idle"
    /\ filter = NoFilter
    /\ listeners = <<>>
    /\ idx = 1
    /\ buf = <<>>
    /\ widths = <<>>
    /\ verdicts = <<>>
    /\ op = "none"
    /\ ret = "none"
    /\ prev = NoCall
    /\ fnIn = NoInput
    /\ fnOut = NoOutput

SpecBreak == InitBreak /\ [][Next]_vars

-----------------------------------------------------------------------------
(* Claims about the classifier *)

\* positions <<chain, filter>> of the filters of l that are in the set S
Positions(l, S) ==
    {ij \in UNION {{<<i, j>> : j \in 1..Len(l.filterChains[i])} :
                   i \in 1..Len(l.filterChains)} :
        l.filterChains[ij[1]][ij[2]] \in S}

IsHttp == {FHttp}
IsRealTcp == {FTcp, FTcpNoConfig}
IsBlackHoleTcp == {FTcpBlackHole}

RECURSIVE Flatten(_)
Flatten(chains) ==
    IF chains = <<>> THEN <<>> ELSE Head(chains) \o Flatten(Tail(chains))

Reverse(s) == [i \in 1..Len(s) |-> s[Len(s) + 1 - i]]

\* C1: the label is one of the four, decided only by the number of HTTP
\* connection-manager filters and of TCP proxy filters without the black-hole
\* marker over all chains (HTTP: h > 0, t = 0; HTTP+TCP: both > 0; TCP: h = 0,
\* t > 0; UNKNOWN otherwise); regrouping all filters into one chain, or
\* reversing their order, gives the same label.
C1_TypeByCounts ==
    fnOut.done =>
        LET l == fnIn.l
            h == Cardinality(Positions(l, IsHttp))
            t == Cardinality(Positions(l, IsRealTcp))
            flat == Flatten(l.filterChains)
        IN  /\ fnOut.value \in {TypeHTTP, TypeTCP, TypeHTTPTCP, TypeUNKNOWN}
            /\ (h > 0 /\ t = 0) => fnOut.value = TypeHTTP
            /\ (h > 0 /\ t > 0) => fnOut.value = TypeHTTPTCP
            /\ (h = 0 /\ t > 0) => fnOut.value = TypeTCP
            /\ (h = 0 /\ t = 0) => fnOut.value = TypeUNKNOWN
            /\ retrieveListenerType(MkListener(NilAddress, <<flat>>)) = fnOut.value
            /\ retrieveListenerType(MkListener(NilAddress, <<Reverse(flat)>>)) = fnOut.value
            /\ retrieveListenerType(MkListener(NilAddress, <<<<>>>> \o l.filterChains))
                   = fnOut.value

\* an HTTP filter and a TCP proxy filter in different chains, between an
\* unrelated filter and an empty chain, classified HTTP+TCP
C1_Witness ==
    /\ fnOut.done
    /\ fnIn.l.filterChains = <<<<FOther, FTcp>>, <<FHttp>>>>
    /\ fnOut.value = TypeHTTPTCP

\* C2: a listener whose TCP proxy filters all carry the black-hole marker is
\* HTTP when it has an HTTP connection-manager filter and UNKNOWN when it has
\* none, however many black-hole filters it has.
C2_BlackHoleNeverTcp ==
    (/\ fnOut.done
     /\ Positions(fnIn.l, IsBlackHoleTcp) # {}
     /\ Positions(fnIn.l, IsRealTcp) = {})
    => fnOut.value = (IF Positions(fnIn.l, IsHttp) # {} THEN TypeHTTP ELSE TypeUNKNOWN)

\* two black-hole TCP proxy filters beside an HTTP filter: HTTP
C2_Witness ==
    /\ fnOut.done
    /\ Cardinality(Positions(fnIn.l, IsBlackHoleTcp)) >= 2
    /\ Positions(fnIn.l, IsHttp) # {}
    /\ fnOut.value = TypeHTTP

-----------------------------------------------------------------------------
(* Claims about Verify *)

SameIgnoringCase(s, t) ==
    /\ Len(s) = Len(t)
    /\ \A i \in 1..Len(s) :
           s[i] = t[i] \/ \E o \in FoldOrbits : s[i] \in o /\ t[i] \in o

AddressPasses(f, l) ==
    f.Address # <<>> =>
        /\ l.address.kind = "socket"
        /\ SameIgnoringCase(l.address.address, f.Address)

PortPasses(f, l) ==
    f.Port # 0 => (IF l.address.kind = "socket" THEN l.address.port ELSE 0) = f.Port

TypePasses(f, l) ==
    f.Type # <<>> => SameIgnoringCase(retrieveListenerType(l), f.Type)

\* C3: Verify returns true exactly when every specified field passes (Address
\* ignoring case, Port exactly, Type ignoring case against the classifier's
\* label); an all-unset filter matches every listener, and Port = 0 leaves the
\* port unchecked.
C3_VerifyIffAllPass ==
    fnOut.done =>
        /\ (fnOut.value = "true") <=>
               (/\ AddressPasses(fnIn.f, fnIn.l)
                /\ PortPasses(fnIn.f, fnIn.l)
                /\ TypePasses(fnIn.f, fnIn.l))
        /\ fnIn.f = NoFilter => fnOut.value = "true"

\* all three fields set, address and type differing from the listener's in
\* case only, and the listener accepted
C3_Witness ==
    /\ fnOut.done
    /\ fnOut.value = "true"
    /\ fnIn.f.Address # <<>> /\ fnIn.f.Address # fnIn.l.address.address
    /\ fnIn.f.Port = 8080
    /\ fnIn.f.Type # <<>> /\ fnIn.f.Type # retrieveListenerType(fnIn.l)

-----------------------------------------------------------------------------
(* Claims about the extractor; dump0 is the dump the call was given *)

Started == pc # "idle"
ExtractionFailed == ret \in {ErrNotPrimed, ErrListenerDump, ErrUnmarshal, ErrNoListeners}
ExtractionSucceeded == Started /\ ~ExtractionFailed

\* the payload-bearing entries of a dump, dynamic ones first, in dump order
DynamicPayloads(d) == SelectSeq(d.dynamic, LAMBDA e : e.activeState /\ e.present)
StaticPayloads(d) == SelectSeq(d.static, LAMBDA e : e.present)
Payloads(d) == DynamicPayloads(d) \o StaticPayloads(d)

\* C4: on success the listeners are those of the payload-bearing entries, every
\* dynamic one before every static one, each group in dump order, none
\* reordered, duplicated or dropped.
C4_EncounterOrder ==
    ExtractionSucceeded =>
        /\ Len(listeners) = Len(Payloads(dump0))
        /\ \A i \in 1..Len(listeners) : listeners[i] = Payloads(dump0)[i].value.listener

\* a dynamic listener on port 8080 before a static one on port 80
C4_Witness ==
    /\ ExtractionSucceeded
    /\ Len(dump0.dynamic) = 1 /\ Len(dump0.static) = 1
    /\ listeners = <<LTcp, LHttp>>

\* C5: an unset dump gives the NotPrimed error; a dump whose entries carry no
\* listener payload gives the EmptyResult error; the two differ, and a
\* successful extraction returns at least one listener.
C5_NotPrimedAndEmpty ==
    Started =>
        /\ ~dump0.primed => ret = ErrNotPrimed
        /\ (dump0.primed /\ dump0.section /\ Payloads(dump0) = <<>>) => ret = ErrNoListeners
        /\ ExtractionSucceeded => listeners # <<>>
        /\ ErrNotPrimed # ErrNoListeners

\* a dynamic entry with no active listener and a static entry with no payload:
\* both skipped, EmptyResult
C5_Witness ==
    /\ pc = "done"
    /\ ret = ErrNoListeners
    /\ Len(dump0.dynamic) = 1 /\ Len(dump0.static) = 1

\* the entries of a dump in the order the extractor visits them
Entries(d) == d.dynamic \o d.static
IsBad(d, i) ==
    /\ IF i <= Len(d.dynamic) THEN Entries(d)[i].activeState /\ Entries(d)[i].present
                              ELSE Entries(d)[i].present
    /\ ~Entries(d)[i].value.ok

\* C6: when a payload-bearing entry does not decode, the call fails with the
\* decode error and returns no listener and prints nothing, wherever the entry
\* sits; the entries after the first such entry are left as they were (not
\* processed), the payloads up to it have been given the v3 type.
C6_FailFast ==
    (Started /\ dump0.primed /\ dump0.section) =>
        \A i \in 1..Len(Entries(dump0)) :
            (IsBad(dump0, i) /\ \A j \in 1..(i - 1) : ~IsBad(dump0, j)) =>
                /\ ret = ErrUnmarshal
                /\ pc = "done"
                /\ listeners = <<>>
                /\ stdout = <<>>
                /\ \A j \in (i + 1)..Len(Entries(dump0)) :
                       Entries(configDump)[j] = Entries(dump0)[j]
                /\ Entries(configDump)[i].typeUrl = ListenerType

\* a good dynamic entry, then a corrupt static entry declared with the v2 type
C6_Witness ==
    /\ pc = "done"
    /\ ret = ErrUnmarshal
    /\ dump0.dynamic = <<DynamicPayload(ListenerTypeV2, GoodValue(LHttp))>>
    /\ dump0.static = <<StaticPayload(ListenerTypeV2, CorruptValue)>>

-----------------------------------------------------------------------------
(* Claims about the printers *)

Returned == pc = "done"

RECURSIVE Accepted(_)
\* history: of the first n listeners, those Verify accepted, in order
Accepted(n) ==
    IF n = 0 THEN <<>>
    ELSE Accepted(n - 1) \o (IF verdicts[n] = "true" THEN <<listeners[n]>> ELSE <<>>)

Decimal(p) == CASE p = 0 -> <<"0">>
                [] p = 80 -> <<"8", "0">>
                [] p = 8080 -> <<"8", "0", "8", "0">>

\* the row PrintListenerSummary prints for a listener
RowOf(l) == Line(<<l.address.address, Decimal(l.address.port), retrieveListenerType(l)>>)

Rows(ls) == [i \in 1..Len(ls) |-> RowOf(ls[i])]

\* what a call that ran to its end was to print: the table of the header and
\* the rows of the accepted listeners, or their array
FullOutput ==
    IF op = "summary"
    THEN Bytes(FlushWrites(<<HeaderLine>> \o Rows(Accepted(Len(verdicts))), <<>>))
    ELSE <<Json(buf)>>

\* C7: no partial success: a call that returned either returned no error and
\* wrote its full output, or returned an error and wrote nothing.
C7_NoPartialSuccess ==
    Returned =>
        \/ ret = "nil" /\ stdout = FullOutput
        \/ /\ ret \in {ErrNotPrimed, ErrListenerDump, ErrUnmarshal, ErrNoListeners,
                       ErrMarshal, ErrFlush}
           /\ stdout = <<>>

Passes(f, l) == AddressPasses(f, l) /\ PortPasses(f, l) /\ TypePasses(f, l)

RECURSIVE Tokens(_, _, _, _)
\* the pieces of s from position i that the separator sep delimits, after cur
Tokens(s, i, cur, sep) ==
    IF i > Len(s) THEN <<cur>>
    ELSE IF s[i] = sep THEN <<cur>> \o Tokens(s, i + 1, <<>>, sep)
    ELSE Tokens(s, i + 1, Append(cur, s[i]), sep)

\* the table read back from the stream: its newline-terminated lines, each as
\* its cells, the runs of characters between spaces
Table(s) ==
    LET ls == Tokens(s, 1, <<>>, "\n")
    IN  [i \in 1..(Len(ls) - 1) |->
            SelectSeq(Tokens(ls[i], 1, <<>>, " "), LAMBDA c : c # <<>>)]

\* the stream ends with a newline (or is empty)
EndsLine(s) == s = <<>> \/ s[Len(s)] = "\n"

\* C8: a successful PrintListenerSummary wrote the header and then one row
\* (address, decimal port, label) per extracted listener that passes the
\* filter, in extraction order, duplicates included.
C8_SummaryRows ==
    (pc = "done" /\ op = "summary" /\ ret = "nil") =>
        LET sel == SelectSeq(listeners, LAMBDA l : Passes(filter, l))
        IN  /\ EndsLine(stdout)
            /\ Len(Table(stdout)) = Len(sel) + 1
            /\ Table(stdout)[1] = HeaderLine.cells
            /\ \A i \in 1..Len(sel) :
                   Table(stdout)[i + 1] = <<sel[i].address.address,
                                            Decimal(sel[i].address.port),
                                            retrieveListenerType(sel[i])>>

\* an address with none of the characters that end a cell or a line
Plain(l) == \A i \in 1..Len(l.address.address) :
                l.address.address[i] \notin CellEnds \cup LineEnds

\* the same, for the calls in which every listener has a plain address
C8_RowsOfPlainAddresses ==
    (\A i \in 1..Len(listeners) : Plain(listeners[i])) => C8_SummaryRows

\* the same listener extracted twice and printed as two equal rows, under a
\* filter that checks its port
C8_Witness ==
    /\ pc = "done" /\ op = "summary" /\ ret = "nil"
    /\ filter.Port = 80
    /\ Len(Table(stdout)) = 3
    /\ Table(stdout)[2] = Table(stdout)[3]

\* C9: once extraction has succeeded, PrintListenerSummary ends by returning
\* nil or the flush error; it never aborts on a listener.
C9_SummaryNeverAborts ==
    (op = "summary" /\ ExtractionSucceeded) => pc # "panicked"

\* C10: filtering is pure: a loop iteration changes neither the filter nor the
\* listeners, the verdict it records is that of Verify on the listener alone, and
\* equal listeners of one collection get equal verdicts wherever they stand.
C10_FilterPure ==
    /\ [](\A i, j \in 1..Len(verdicts) :
              listeners[i] = listeners[j] => verdicts[i] = verdicts[j])
    /\ [][(pc \in {"summary", "dump"}) =>
              /\ filter' = filter
              /\ listeners' = listeners
              /\ configDump' = configDump
              /\ Len(verdicts') > Len(verdicts) =>
                     verdicts' = Append(verdicts, IF Passes(filter, listeners[idx])
                                                  THEN "true" ELSE "false")]_vars

\* two equal listeners tested in turn under a filter that checks address, port
\* and type, both accepted
C10_Witness ==
    /\ Len(verdicts) = 2
    /\ listeners[1] = listeners[2]
    /\ filter.Address # <<>> /\ filter.Port # 0
    /\ verdicts = <<"true", "true">>

-----------------------------------------------------------------------------
(* Claims about repeated calls *)

\* the error of the extraction of the running or last call ("nil": none)
ExtractionErr == IF ExtractionFailed THEN ret ELSE "nil"

\* e is d with the type URL of some payload-bearing entries set to the v3 type
Retagged(d, e) ==
    /\ e.primed = d.primed /\ e.section = d.section
    /\ Len(e.dynamic) = Len(d.dynamic) /\ Len(e.static) = Len(d.static)
    /\ \A i \in 1..Len(Entries(d)) :
           /\ [Entries(e)[i] EXCEPT !.typeUrl = ""] = [Entries(d)[i] EXCEPT !.typeUrl = ""]
           /\ Entries(e)[i].typeUrl \in {Entries(d)[i].typeUrl, ListenerType}
           /\ ~Entries(d)[i].present => Entries(e)[i] = Entries(d)[i]

\* C11: a call that follows a finished call on the same writer extracts the
\* same listeners, or fails with the same extraction error, as the call before
\* it; no step changes anything in the dump but the type URL of payloads, which
\* becomes the v3 type.
C11_ExtractionRepeatable ==
    [][/\ Retagged(configDump, configDump')
       /\ pc = "done" => (listeners' = listeners /\ ExtractionErr' = ExtractionErr)]_vars

\* an extraction that succeeded and overwrote a v2 type URL in the dump
C11_Witness ==
    /\ ExtractionSucceeded
    /\ configDump # dump0
    /\ \E i \in 1..Len(Entries(dump0)) : Entries(dump0)[i].typeUrl = ListenerTypeV2
    /\ \A i \in 1..Len(Entries(configDump)) : Entries(configDump)[i].typeUrl # ListenerTypeV2

-----------------------------------------------------------------------------
(* Two printers in turn on one writer: each call remembers the one before *)

\* the outcome of the call that has just returned
LastCall == [valid |-> pc = "done", op |-> op, filter |-> filter,
             err |-> ExtractionErr, sel |-> Accepted(Len(verdicts))]

PairSummarySetup(f) == Setup(f, "summary", <<HeaderLine>>) /\ prev' = LastCall
PairDumpSetup(f) == Setup(f, "dump", <<>>) /\ prev' = LastCall

NextPair ==
    \/ \E f \in FilterSpecs : PairSummarySetup(f)
    \/ SummaryLoop
    \/ SummaryFlush
    \/ \E f \in FilterSpecs : PairDumpSetup(f)
    \/ DumpLoop
    \/ DumpMarshal

SpecPair == Init /\ [][NextPair]_vars

\* the summary's rows describe the dumped array, element by element
RowsDescribe(rows, array) ==
    /\ Len(rows) = Len(array)
    /\ \A i \in 1..Len(rows) : rows[i] = RowOf(array[i])

\* the running call has ended and follows a call of the other printer, with
\* the same filter, on the same writer
OtherPrinterBefore ==
    /\ pc \in {"done", "panicked"}
    /\ prev.valid
    /\ prev.filter = filter
    /\ prev.op # op

\* C12: for the same dump and filter the two printers end alike: the same
\* extraction error, or the same selection, the i-th row of the summary
\* describing the i-th element of the dumped array.
C12_SameSelection ==
    OtherPrinterBefore =>
        /\ pc = "done"
        /\ ExtractionErr = prev.err
        /\ ExtractionErr = "nil" =>
               (IF op = "summary"
                THEN RowsDescribe(Rows(Accepted(Len(verdicts))), prev.sel)
                ELSE RowsDescribe(Rows(prev.sel), buf))

\* the same, for the calls that returned
C12_SameSelectionWhenReturned ==
    (OtherPrinterBefore /\ pc = "done") =>
        /\ ExtractionErr = prev.err
        /\ ExtractionErr = "nil" =>
               (IF op = "summary"
                THEN RowsDescribe(Rows(Accepted(Len(verdicts))), prev.sel)
                ELSE RowsDescribe(Rows(prev.sel), buf))

-----------------------------------------------------------------------------
(* Claims about a filter that matches nothing *)

\* extraction returned listeners and the filter matches none of them
NoneMatches ==
    /\ ExtractionSucceeded
    /\ \A i \in 1..Len(listeners) : ~Passes(filter, listeners[i])

\* what the claim allows a call to end with when nothing matches: nil with the
\* header alone (summary) or the empty array (dump) on a sink that takes the
\* text, or the error of a sink or marshaller that fails; never EmptyResult
EndsEmpty ==
    /\ ret \in {"nil", ErrFlush, ErrMarshal}
    /\ (ret = "nil" /\ op = "summary") =>
           (EndsLine(stdout) /\ Table(stdout) = <<HeaderLine.cells>>)
    /\ (ret = "nil" /\ op = "dump") =>
           stdout \in {<<>>, <<JsonPart(<<>>)>>, <<Json(<<>>)>>}

\* C13: when the dump holds a listener and the filter matches none, the call
\* does not fail with EmptyResult: PrintListenerSummary succeeds with the header
\* line alone, PrintListenerDump succeeds with an empty array.
C13_EmptyFilteredSucceeds ==
    (pc \in {"done", "panicked"} /\ NoneMatches) => (pc = "done" /\ EndsEmpty)

\* the same, for the calls that returned
C13_EmptyFilteredWhenReturned ==
    (pc = "done" /\ NoneMatches) => EndsEmpty

====
